---- MODULE Spec2Model ----
(***************************************************************************)
(* Model of moontechs/proxy: the watch controller (cmd, watchCmd and       *)
(* generateAndReload), the Docker event source (docker.Client.WatchEvents) *)
(* and the Nginx configuration generator (nginx.Generator).                *)
(*                                                                         *)
(* Time is counted in whole seconds, the resolution of the RFC3339         *)
(* timestamp the generator puts into its template data.  The debounce      *)
(* timer follows the Go >= 1.23 timer semantics of the toolchain the       *)
(* repository builds with (golang:1.24): Reset discards a pending expiry.  *)
(***************************************************************************)
EXTENDS Integers, Sequences, FiniteSets, TLC

VARIABLES
    now,            \* wall clock, seconds
    live,           \* names of the containers running in the Docker runtime
    dockerStream,   \* runtime events not yet read by the subscription goroutine
    dockerErr,      \* the runtime's event stream has failed (eventErrCh ready)
    src,            \* position of the WatchEvents goroutine
    held,           \* the event the goroutine is delivering (eventCh <- containerEvent)
    eventCh,        \* buffered channel of ContainerEvent, capacity EventChCap
    errCh,          \* buffered channel of error, capacity 1
    chClosed,       \* eventCh and errCh have been closed by the goroutine
    sigCh,          \* a shutdown signal is waiting in sigCh
    ctxDone,        \* the shared context has been cancelled
    pc,             \* position of the controller (watchCmd / generateAndReload)
    initial,        \* the pass in progress is the initial generation
    exitErr,        \* how watchCmd returned
    pendingReload,  \* watchCmd's pendingReload flag
    timerArmed,     \* debounceTimer is running
    timerDeadline,  \* the instant debounceTimer expires
    scanned,        \* containers returned by ScanContainers in this pass
    streamFile,     \* the file at streamConfigPath
    httpFile,       \* the file at httpConfigPath
    nginxLoaded,    \* the documents the running proxy loaded last
    lastReload,     \* Reloader.lastReload (NeverReloaded = zero time)
    pass,           \* record of the pass in progress or completed last
    emitted,        \* number of container changes the runtime has made
    burst,          \* observer of the debounce bursts
    activePasses,   \* observer: calls of generateAndReload not yet returned
    input,          \* container list handed to the generator under test
    verdict         \* outcome of the generator call under test

vars == <<now, live, dockerStream, dockerErr, src, held, eventCh, errCh, chClosed,
          sigCh, ctxDone, pc, initial, exitErr, pendingReload, timerArmed,
          timerDeadline, scanned, streamFile, httpFile, nginxLoaded, lastReload,
          pass, emitted, burst, activePasses, input, verdict>>

watchVars == <<live, dockerStream, dockerErr, src, held, eventCh, errCh, chClosed,
               sigCh, ctxDone, pc, initial, exitErr, pendingReload, timerArmed,
               timerDeadline, scanned, nginxLoaded, lastReload, pass, emitted, burst,
               activePasses>>

(***************************************************************************)
(* Bounds of the model.                                                    *)
(***************************************************************************)
MaxTime == 3
MaxEvents == 2
MaxContainers == 2
MaxClaims == 2
MaxTicks == 2
BurstCap == 3
MaxScan == 2
LiveMaxTime == 2
RetryMaxTime == 4
RetryMaxEvents == 2
StormBacklog == 1
LiveMaxEvents == 1
MaxFlood == 12
MaxPieces == 4

(***************************************************************************)
(* Program constants.                                                      *)
(***************************************************************************)
EventChCap == 10
DebounceDelay == 2
ReloadMinInterval == 1
NeverReloaded == -1

TCP == "tcp"
UDP == "udp"

(***************************************************************************)
(* Sequence helpers.                                                       *)
(***************************************************************************)
RECURSIVE Flatten(_)
Flatten(ss) == IF ss = <<>> THEN <<>> ELSE Head(ss) \o Flatten(Tail(ss))

Range(s) == {s[i] : i \in DOMAIN s}

SeqsUpTo(S, n) == UNION {[1..k -> S] : k \in 0..n}

Min(a, b) == IF a < b THEN a ELSE b

(***************************************************************************)
(* docker.ContainerInfo, docker.PortMapping, docker.HTTPMapping.           *)
(* A hostname is a sequence of characters.  A container without HTTP       *)
(* mapping (HTTPMapping == nil) has an empty Hostnames list and            *)
(* HasHTTP = FALSE.                                                        *)
(***************************************************************************)
PortMapping(pp, cp, proto) == [ProxyPort |-> pp, ContainerPort |-> cp, Protocol |-> proto]

NoHTTPMapping == [HasHTTP |-> FALSE, Hostnames |-> <<>>, ContainerPort |-> 0, HTTPS |-> FALSE]

HTTPMapping(hosts, cp, https) ==
    [HasHTTP |-> TRUE, Hostnames |-> hosts, ContainerPort |-> cp, HTTPS |-> https]

ContainerInfo(name, id, ip, mappings, http) ==
    [Name |-> name, ID |-> id, IP |-> ip, Mappings |-> mappings, HTTPMapping |-> http]

(***************************************************************************)
(* nginx.hostnameToUpstream: dots and hyphens become underscores, the      *)
(* result is lower-cased and prefixed with http_.                          *)
(***************************************************************************)
ToLower(ch) ==
    CASE ch = "A" -> "a"
      [] ch = "B" -> "b"
      [] ch = "E" -> "e"
      [] ch = "R" -> "r"
      [] ch = "T" -> "t"
      [] ch = "U" -> "u"
      [] OTHER -> ch

\* variant: only the dots are replaced
ReplaceDotOnly(ch) == IF ch = "." THEN "_" ELSE ch

ReplaceDotHyphen(ch) == IF ch \in {".", "-"} THEN "_" ELSE ch

hostnameToUpstream(hostname) ==
    <<"h", "t", "t", "p", "_">> \o
    [i \in DOMAIN hostname |-> ToLower(ReplaceDotHyphen(hostname[i]))]

(***************************************************************************)
(* nginx.Generator.buildTemplateData.                                      *)
(***************************************************************************)
\* variant: the two ports of a mapping are swapped
StreamMappingSwapped(m, ip) ==
    [ProxyPort |-> m.ContainerPort, ContainerPort |-> m.ProxyPort, ContainerIP |-> ip]

StreamMapping(m, ip) ==
    [ProxyPort |-> m.ProxyPort, ContainerPort |-> m.ContainerPort, ContainerIP |-> ip]

MappingsOf(c, proto) ==
    LET sel == SelectSeq(c.Mappings, LAMBDA m : m.Protocol = proto)
    IN  [i \in DOMAIN sel |-> StreamMapping(sel[i], c.IP)]

\* every mapping that is not TCP lands in UDPMappings (the else branch)
NonTCPMappingsOf(c) ==
    LET sel == SelectSeq(c.Mappings, LAMBDA m : m.Protocol # TCP)
    IN  [i \in DOMAIN sel |-> StreamMapping(sel[i], c.IP)]

StreamContainer(c) ==
    [Name |-> c.Name, ID |-> c.ID,
     TCPMappings |-> MappingsOf(c, TCP), UDPMappings |-> NonTCPMappingsOf(c)]

\* variant: the secure flag of the container is not copied to its servers
HTTPServersInsecure(c) ==
    IF c.HTTPMapping.HasHTTP
    THEN [i \in DOMAIN c.HTTPMapping.Hostnames |->
            [ContainerName |-> c.Name, ContainerID |-> c.ID,
             UpstreamName  |-> hostnameToUpstream(c.HTTPMapping.Hostnames[i]),
             Hostname      |-> c.HTTPMapping.Hostnames[i],
             ContainerIP   |-> c.IP,
             ContainerPort |-> c.HTTPMapping.ContainerPort,
             HTTPS         |-> FALSE]]
    ELSE <<>>

HTTPServersOf(c) ==
    IF c.HTTPMapping.HasHTTP
    THEN [i \in DOMAIN c.HTTPMapping.Hostnames |->
            [ContainerName |-> c.Name, ContainerID |-> c.ID,
             UpstreamName  |-> hostnameToUpstream(c.HTTPMapping.Hostnames[i]),
             Hostname      |-> c.HTTPMapping.Hostnames[i],
             ContainerIP   |-> c.IP,
             ContainerPort |-> c.HTTPMapping.ContainerPort,
             HTTPS         |-> c.HTTPMapping.HTTPS]]
    ELSE <<>>

\* variant: the documents carry no generation time
buildTemplateDataUndated(containers, t) ==
    LET withMappings == SelectSeq(containers, LAMBDA c : Len(c.Mappings) > 0)
    IN  [stream |-> [Timestamp  |-> 0,
                     Containers |-> [i \in DOMAIN withMappings |->
                                        StreamContainer(withMappings[i])]],
         http   |-> [Timestamp   |-> 0,
                     HTTPServers |-> Flatten([i \in DOMAIN containers |->
                                                HTTPServersOf(containers[i])])]]

buildTemplateData(containers, t) ==
    LET withMappings == SelectSeq(containers, LAMBDA c : Len(c.Mappings) > 0)
    IN  [stream |-> [Timestamp  |-> t,
                     Containers |-> [i \in DOMAIN withMappings |->
                                        StreamContainer(withMappings[i])]],
         http   |-> [Timestamp   |-> t,
                     HTTPServers |-> Flatten([i \in DOMAIN containers |->
                                                HTTPServersOf(containers[i])])]]

(***************************************************************************)
(* nginx.Generator.validateConflicts.  Each claim space is a map from key  *)
(* to the name of the container that claimed it; the claims are folded in  *)
(* order and the first key found already present fails the validation.     *)
(***************************************************************************)
Claim(key, name) == [key |-> key, name |-> name]

TCPClaims(streamData) ==
    Flatten([i \in DOMAIN streamData.Containers |->
        [j \in DOMAIN streamData.Containers[i].TCPMappings |->
            Claim(<<streamData.Containers[i].TCPMappings[j].ProxyPort>>,
                  streamData.Containers[i].Name)]])

\* variant: UDP mappings share the claim map of the TCP mappings
UDPClaimsSharedWithTCP(streamData) ==
    TCPClaims(streamData) \o
    Flatten([i \in DOMAIN streamData.Containers |->
        [j \in DOMAIN streamData.Containers[i].UDPMappings |->
            Claim(<<streamData.Containers[i].UDPMappings[j].ProxyPort>>,
                  streamData.Containers[i].Name)]])

UDPClaims(streamData) ==
    Flatten([i \in DOMAIN streamData.Containers |->
        [j \in DOMAIN streamData.Containers[i].UDPMappings |->
            Claim(<<streamData.Containers[i].UDPMappings[j].ProxyPort>>,
                  streamData.Containers[i].Name)]])

HostClaims(httpData) ==
    [i \in DOMAIN httpData.HTTPServers |->
        Claim(httpData.HTTPServers[i].Hostname, httpData.HTTPServers[i].ContainerName)]

\* index of the first claim whose key is already in the map, 0 if there is none
FirstExisting(claims) ==
    LET hits == {j \in DOMAIN claims : \E i \in 1..(j - 1) : claims[i].key = claims[j].key}
    IN  IF hits = {} THEN 0 ELSE CHOOSE j \in hits : \A k \in hits : j <= k

\* the value the map holds for the key of claim j: the last claimant before j
ExistingName(claims, j) ==
    LET before == {i \in 1..(j - 1) : claims[i].key = claims[j].key}
    IN  claims[CHOOSE i \in before : \A k \in before : k <= i].name

NoConflict == [err |-> FALSE, space |-> "none", key |-> <<>>, existing |-> "", new |-> ""]

ConflictIn(space, claims) ==
    LET j == FirstExisting(claims)
    IN  [err |-> TRUE, space |-> space, key |-> claims[j].key,
         existing |-> ExistingName(claims, j), new |-> claims[j].name]

validateConflicts(streamData, httpData) ==
    IF FirstExisting(TCPClaims(streamData)) # 0
    THEN ConflictIn("TCP", TCPClaims(streamData))
    ELSE IF FirstExisting(UDPClaims(streamData)) # 0
    THEN ConflictIn("UDP", UDPClaims(streamData))
    ELSE IF FirstExisting(HostClaims(httpData)) # 0
    THEN ConflictIn("HTTP", HostClaims(httpData))
    ELSE NoConflict

(***************************************************************************)
(* Rendering (generateStreamConfig / generateHTTPConfig executing the      *)
(* templates on the template data).  A document is the sequence of its     *)
(* blocks; the first block is the header comment carrying data.Timestamp   *)
(* ("# Auto-generated by proxy-nginx at <RFC3339 time>").                  *)
(***************************************************************************)
StreamLine(kind, proto, listen, addr, port, t) ==
    [kind |-> kind, proto |-> proto, listen |-> listen, addr |-> addr, port |-> port, ts |-> t]

StreamBlocks(proto, mappings) ==
    Flatten([j \in DOMAIN mappings |->
        << StreamLine("upstream", proto, mappings[j].ProxyPort,
                      mappings[j].ContainerIP, mappings[j].ContainerPort, 0),
           StreamLine("server", proto, mappings[j].ProxyPort, "", 0, 0) >>])

RenderStream(data) ==
    << StreamLine("comment", "", 0, "", 0, data.Timestamp) >> \o
    Flatten([i \in DOMAIN data.Containers |->
        StreamBlocks(TCP, data.Containers[i].TCPMappings) \o
        StreamBlocks(UDP, data.Containers[i].UDPMappings)])

HTTPLine(kind, upstream, host, addr, port, listen, t) ==
    [kind |-> kind, upstream |-> upstream, host |-> host, addr |-> addr,
     port |-> port, listen |-> listen, ts |-> t]

RenderHTTP(data) ==
    << HTTPLine("comment", <<>>, <<>>, "", 0, 0, data.Timestamp) >> \o
    Flatten([i \in DOMAIN data.HTTPServers |->
        << HTTPLine("upstream", data.HTTPServers[i].UpstreamName, <<>>,
                    data.HTTPServers[i].ContainerIP, data.HTTPServers[i].ContainerPort, 0, 0),
           HTTPLine("server", data.HTTPServers[i].UpstreamName, data.HTTPServers[i].Hostname,
                    "", 0, IF data.HTTPServers[i].HTTPS THEN 443 ELSE 80, 0) >>])

(***************************************************************************)
(* Files, nginx.checksum, nginx.atomicWrite, Generator.writeIfChanged.     *)
(* os.ReadFile of a missing file yields nil content, whose checksum is     *)
(* the checksum of the empty byte string.                                  *)
(***************************************************************************)
Missing == [exists |-> FALSE, content |-> <<>>]

\* variant: the last byte block of the document never reaches the file
FileTruncated(content) == [exists |-> TRUE, content |-> SubSeq(content, 1, Len(content) - 1)]

FileWith(content) == [exists |-> TRUE, content |-> content]

checksum(data) == <<"sha256", data>>

IOOutcomes == {"ok", "readErr", "writeErr", "renameErr"}

\* what a failed os.WriteFile leaves behind: the file exists, truncated
Partial(content) == FileWith(SubSeq(content, 1, Len(content) - 1))

\* variant: the document is written straight to the target path
WriteInPlace(file, content, io) ==
    IF io = "writeErr"
    THEN [err |-> TRUE, file |-> Partial(content), tmp |-> Missing, writes |-> 1]
    ELSE [err |-> FALSE, file |-> FileWith(content), tmp |-> Missing, writes |-> 1]

\* the target file and the sibling path + ".tmp" after atomicWrite: the
\* target is replaced only when both the write of the temporary file and
\* the rename succeed; a failed rename removes the temporary file
atomicWrite(file, content, io) ==
    IF io = "writeErr"
    THEN [err |-> TRUE, file |-> file, tmp |-> Partial(content), writes |-> 1]
    ELSE IF io = "renameErr"
    THEN [err |-> TRUE, file |-> file, tmp |-> Missing, writes |-> 1]
    ELSE [err |-> FALSE, file |-> FileWith(content), tmp |-> Missing, writes |-> 1]

\* variant: the document is written whether or not its checksum changed
writeAlways(file, content, io) ==
    IF io = "readErr"
    THEN [changed |-> FALSE, err |-> TRUE, file |-> file, tmp |-> Missing, writes |-> 0]
    ELSE [changed |-> ~atomicWrite(file, content, io).err,
          err     |-> atomicWrite(file, content, io).err,
          file    |-> atomicWrite(file, content, io).file,
          tmp     |-> atomicWrite(file, content, io).tmp,
          writes  |-> atomicWrite(file, content, io).writes]

writeIfChanged(file, content, io) ==
    IF io = "readErr"
    THEN [changed |-> FALSE, err |-> TRUE, file |-> file, tmp |-> Missing, writes |-> 0]
    ELSE IF checksum(content) = checksum(file.content)
    THEN [changed |-> FALSE, err |-> FALSE, file |-> file, tmp |-> Missing, writes |-> 0]
    ELSE [changed |-> ~atomicWrite(file, content, io).err,
          err     |-> atomicWrite(file, content, io).err,
          file    |-> atomicWrite(file, content, io).file,
          tmp     |-> atomicWrite(file, content, io).tmp,
          writes  |-> atomicWrite(file, content, io).writes]

(***************************************************************************)
(* nginx.Generator.Generate.                                               *)
(***************************************************************************)
\* variant: the documents are committed first and the conflicts checked afterwards
GenerateCommitBeforeValidation(containers, t, sFile, hFile, ioS, ioH) ==
    LET data     == buildTemplateData(containers, t)
        conflict == validateConflicts(data.stream, data.http)
        s        == writeIfChanged(sFile, RenderStream(data.stream), ioS)
        h        == writeIfChanged(hFile, RenderHTTP(data.http), ioH)
    IN  IF s.err
        THEN [changed |-> FALSE, err |-> "stream", conflict |-> conflict,
              streamFile |-> s.file, httpFile |-> hFile]
        ELSE IF h.err
        THEN [changed |-> FALSE, err |-> "http", conflict |-> conflict,
              streamFile |-> s.file, httpFile |-> h.file]
        ELSE IF conflict.err
        THEN [changed |-> FALSE, err |-> "conflict", conflict |-> conflict,
              streamFile |-> s.file, httpFile |-> h.file]
        ELSE [changed |-> s.changed \/ h.changed, err |-> "none", conflict |-> conflict,
              streamFile |-> s.file, httpFile |-> h.file]

\* variant: with nothing to render, nothing is written
GenerateSkipsEmpty(containers, t, sFile, hFile, ioS, ioH) ==
    LET data     == buildTemplateData(containers, t)
        conflict == validateConflicts(data.stream, data.http)
        s        == writeIfChanged(sFile, RenderStream(data.stream), ioS)
        h        == writeIfChanged(hFile, RenderHTTP(data.http), ioH)
    IN  IF conflict.err
        THEN [changed |-> FALSE, err |-> "conflict", conflict |-> conflict,
              streamFile |-> sFile, httpFile |-> hFile]
        ELSE IF data.stream.Containers = <<>> /\ data.http.HTTPServers = <<>>
        THEN [changed |-> FALSE, err |-> "none", conflict |-> conflict,
              streamFile |-> sFile, httpFile |-> hFile]
        ELSE IF s.err
        THEN [changed |-> FALSE, err |-> "stream", conflict |-> conflict,
              streamFile |-> s.file, httpFile |-> hFile]
        ELSE IF h.err
        THEN [changed |-> FALSE, err |-> "http", conflict |-> conflict,
              streamFile |-> s.file, httpFile |-> h.file]
        ELSE [changed |-> s.changed \/ h.changed, err |-> "none", conflict |-> conflict,
              streamFile |-> s.file, httpFile |-> h.file]

Generate(containers, t, sFile, hFile, ioS, ioH) ==
    LET data     == buildTemplateData(containers, t)
        conflict == validateConflicts(data.stream, data.http)
        s        == writeIfChanged(sFile, RenderStream(data.stream), ioS)
        h       == writeIfChanged(hFile, RenderHTTP(data.http), ioH)
    IN  IF conflict.err
        THEN [changed |-> FALSE, err |-> "conflict", conflict |-> conflict,
              streamFile |-> sFile, httpFile |-> hFile]
        ELSE IF s.err
        THEN [changed |-> FALSE, err |-> "stream", conflict |-> conflict,
              streamFile |-> s.file, httpFile |-> hFile]
        ELSE IF h.err
        THEN [changed |-> FALSE, err |-> "http", conflict |-> conflict,
              streamFile |-> s.file, httpFile |-> h.file]
        ELSE [changed |-> s.changed \/ h.changed, err |-> "none", conflict |-> conflict,
              streamFile |-> s.file, httpFile |-> h.file]

(***************************************************************************)
(* Initial values of the controller, shared by the specifications that     *)
(* exercise the generator alone.                                           *)
(***************************************************************************)
NoEvent == [Type |-> "", Name |-> ""]

\* observer of one call of generateAndReload: the steps taken, what Generate
\* reported, whether a document on disk was replaced, whether the proxy
\* loaded a new configuration, and the error returned
NewPass(t) ==
    [trace |-> <<>>, changed |-> FALSE, valid |-> FALSE, err |-> "none", done |-> FALSE,
     startedAt |-> t, wrote |-> FALSE, loaded |-> FALSE, stale |-> FALSE]

NoBurst == [open |-> FALSE, len |-> 0, passes |-> 0, lastRecv |-> 0, parity |-> 0]

NoVerdict == [called |-> FALSE]

\* variant: watchCmd enters the event loop without an initial generation
StartInEventLoop == "select"

\* watchCmd calls generateAndReload before it reaches the event loop
StartPosition == "scan"

WatchInit ==
    /\ live = {}
    /\ dockerStream = <<>>
    /\ dockerErr = FALSE
    /\ src = "notStarted"
    /\ held = NoEvent
    /\ eventCh = <<>>
    /\ errCh = <<>>
    /\ chClosed = FALSE
    /\ sigCh = FALSE
    /\ ctxDone = FALSE
    /\ pc = StartPosition
    /\ initial = TRUE
    /\ exitErr = "running"
    /\ pendingReload = FALSE
    /\ timerArmed = FALSE
    /\ timerDeadline = 0
    /\ scanned = <<>>
    /\ lastReload = NeverReloaded
    /\ pass = NewPass(0)
    /\ emitted = 0
    /\ burst = NoBurst
    /\ activePasses = 1

(***************************************************************************)
(* ConflictSpec: buildTemplateData and validateConflicts applied to every  *)
(* list of at most MaxContainers containers, each with at most MaxClaims    *)
(* claims (port mappings plus hostnames), as TestValidateConflicts does.   *)
(***************************************************************************)
ContainerNames == <<"c1", "c2", "c3", "c4">>

PortChoices ==
    {PortMapping(80, 8080, TCP), PortMapping(80, 8080, UDP), PortMapping(53, 53, TCP)}

HostChoices == {<<"a", ".", "x">>, <<"b", ".", "x">>, <<"c", ".", "x">>}

HTTPChoices(n) ==
    {NoHTTPMapping} \cup
    {HTTPMapping(hs, 80, FALSE) : hs \in UNION {[1..k -> HostChoices] : k \in 1..n}}

ClaimChoices ==
    UNION {[1..k -> PortChoices] \X HTTPChoices(MaxClaims - k) : k \in 0..MaxClaims}

ConflictInit ==
    /\ WatchInit
    /\ now = 0
    /\ streamFile = Missing
    /\ httpFile = Missing
    /\ nginxLoaded = <<Missing, Missing>>
    /\ input = <<>>
    /\ verdict = NoVerdict

\* the test appends one more container to the list it will validate
AddContainer ==
    /\ ~verdict.called
    /\ Len(input) < MaxContainers
    /\ \E cl \in ClaimChoices :
          LET name == ContainerNames[Len(input) + 1]
          IN  input' = Append(input, ContainerInfo(name, name, name, cl[1], cl[2]))
    /\ UNCHANGED <<now, streamFile, httpFile, verdict>>
    /\ UNCHANGED watchVars

ValidateInput ==
    /\ ~verdict.called
    /\ verdict' = [called |-> TRUE,
                   res |-> LET data == buildTemplateData(input, now)
                           IN  validateConflicts(data.stream, data.http)]
    /\ UNCHANGED <<now, streamFile, httpFile, input>>
    /\ UNCHANGED watchVars

ConflictNext == AddContainer \/ ValidateInput

ConflictSpec == ConflictInit /\ [][ConflictNext]_vars

(***************************************************************************)
(* The claims a container list makes, read off the containers themselves.  *)
(***************************************************************************)
Spaces == {"TCP", "UDP", "HTTP"}

\* the keys container c claims in a space, in label order, with repetitions
KeySeq(c, space) ==
    IF space = "HTTP"
    THEN (IF c.HTTPMapping.HasHTTP THEN c.HTTPMapping.Hostnames ELSE <<>>)
    ELSE LET sel == SelectSeq(c.Mappings,
                       LAMBDA m : m.Protocol = (IF space = "TCP" THEN TCP ELSE UDP))
         IN  [i \in DOMAIN sel |-> <<sel[i].ProxyPort>>]

Keys(c, space) == Range(KeySeq(c, space))

ByName(containers, name) ==
    containers[CHOOSE i \in DOMAIN containers : containers[i].Name = name]

\* two different containers claim the same key in the same space
CrossContainerClaim(containers) ==
    \E i, j \in DOMAIN containers : \E sp \in Spaces :
        i # j /\ Keys(containers[i], sp) \cap Keys(containers[j], sp) # {}

(***************************************************************************)
(* C5: whenever two different containers claim the same proxy port under   *)
(* the same protocol, or the same hostname, validation fails and the error *)
(* names a key together with two different containers that both claim it   *)
(* in the reported space.                                                  *)
(***************************************************************************)
C5_ConflictNamesKeyAndBothContainers ==
    (verdict.called /\ CrossContainerClaim(input)) =>
        /\ verdict.res.err
        /\ verdict.res.existing # verdict.res.new
        /\ verdict.res.key \in Keys(ByName(input, verdict.res.existing), verdict.res.space)
        /\ verdict.res.key \in Keys(ByName(input, verdict.res.new), verdict.res.space)

\* the part of C5 the code does deliver: the clash is detected, and the two
\* names reported are claimants of the reported key
C5_CrossClaimDetected ==
    (verdict.called /\ CrossContainerClaim(input)) =>
        /\ verdict.res.err
        /\ verdict.res.key \in Keys(ByName(input, verdict.res.existing), verdict.res.space)
        /\ verdict.res.key \in Keys(ByName(input, verdict.res.new), verdict.res.space)

(***************************************************************************)
(* C6: the claim spaces are independent.  When no key is claimed twice     *)
(* inside one space, validation passes, whatever keys the other spaces     *)
(* hold: TCP and UDP on one port, a stream port equal to a hostname        *)
(* listener's port, stream and hostname claims in one container.           *)
(***************************************************************************)
AllKeys(containers, space) ==
    Flatten([i \in DOMAIN containers |-> KeySeq(containers[i], space)])

NoKeyTwiceIn(containers, space) ==
    \A i, j \in DOMAIN AllKeys(containers, space) :
        i # j => AllKeys(containers, space)[i] # AllKeys(containers, space)[j]

C6_ClaimSpacesIndependent ==
    (verdict.called /\ \A sp \in Spaces : NoKeyTwiceIn(input, sp)) => ~verdict.res.err

\* c1 holds TCP 80 and a hostname (listener port 80), c2 holds UDP 80: no conflict
C6_Witness ==
    /\ verdict.called
    /\ ~verdict.res.err
    /\ \E i, j \in DOMAIN input :
          /\ i # j
          /\ <<80>> \in Keys(input[i], "TCP")
          /\ <<80>> \in Keys(input[j], "UDP")
          /\ Keys(input[i], "HTTP") # {}
          /\ ~input[i].HTTPMapping.HTTPS

(***************************************************************************)
(* C7: validation fails if and only if two different containers claim the  *)
(* same key in the same space; one container's own claims never conflict.  *)
(***************************************************************************)
C7_FailsIffCrossContainerClaim ==
    verdict.called => (verdict.res.err <=> CrossContainerClaim(input))

(***************************************************************************)
(* GenSpec: Generator.Generate called repeatedly, as TestGenerate does, on *)
(* lists of the fixture containers while the clock advances.               *)
(***************************************************************************)
HostA == <<"a", ".", "x">>

Fixture(name) ==
    CASE name = "web1" ->
           ContainerInfo("web1", "abc123", "172.17.0.2",
                         <<PortMapping(80, 8080, TCP)>>, HTTPMapping(<<HostA>>, 8080, FALSE))
      [] name = "web2" ->
           ContainerInfo("web2", "def456", "172.17.0.3",
                         <<PortMapping(80, 3000, TCP), PortMapping(53, 53, UDP)>>,
                         NoHTTPMapping)

GenFixtures == {"web1", "web2"}

GenInit ==
    /\ WatchInit
    /\ now = 0
    /\ streamFile = Missing
    /\ httpFile = Missing
    /\ nginxLoaded = <<Missing, Missing>>
    /\ input = <<>>
    /\ verdict = NoVerdict

\* a container appears in the list handed to the next call
GenAddContainer ==
    /\ \E name \in GenFixtures :
          /\ \A i \in DOMAIN input : input[i].Name # name
          /\ input' = Append(input, Fixture(name))
    /\ UNCHANGED <<now, streamFile, httpFile, verdict>>
    /\ UNCHANGED watchVars

\* a container disappears from the list
GenRemoveContainer ==
    /\ \E i \in DOMAIN input :
          input' = SubSeq(input, 1, i - 1) \o SubSeq(input, i + 1, Len(input))
    /\ UNCHANGED <<now, streamFile, httpFile, verdict>>
    /\ UNCHANGED watchVars

GenTick ==
    /\ now < MaxTicks
    /\ now' = now + 1
    /\ UNCHANGED <<streamFile, httpFile, input, verdict>>
    /\ UNCHANGED watchVars

GenCall ==
    /\ \E ioS, ioH \in IOOutcomes :
        \E res \in {Generate(input, now, streamFile, httpFile, ioS, ioH)} :
              /\ streamFile' = res.streamFile
              /\ httpFile' = res.httpFile
              /\ verdict' = [called    |-> TRUE,
                             changed   |-> res.changed,
                             err       |-> res.err,
                             input     |-> input,
                             repeat    |-> /\ verdict.called
                                           /\ verdict.err = "none"
                                           /\ verdict.input = input,
                             sameSet   |-> /\ verdict.called
                                           /\ verdict.err = "none"
                                           /\ Range(verdict.input) = Range(input),
                             sameTime  |-> /\ verdict.called
                                           /\ verdict.at = now,
                             at        |-> now,
                             preStream |-> streamFile,
                             preHttp   |-> httpFile]
    /\ UNCHANGED <<now, input>>
    /\ UNCHANGED watchVars

GenNext == GenAddContainer \/ GenRemoveContainer \/ GenTick \/ GenCall

GenSpec == GenInit /\ [][GenNext]_vars

(***************************************************************************)
(* C8: idempotence.  A Generate call that follows a successful call on the *)
(* same container list reports changed = false and leaves the bytes of     *)
(* both documents as they were.                                            *)
(***************************************************************************)
C8_SecondPassUnchanged ==
    (verdict.called /\ verdict.repeat /\ verdict.err = "none") =>
        /\ ~verdict.changed
        /\ streamFile = verdict.preStream
        /\ httpFile = verdict.preHttp

(***************************************************************************)
(* Spec: the watch command.  The Docker runtime starts and stops the       *)
(* fixture containers, the WatchEvents goroutine forwards the events, and  *)
(* watchCmd runs the initial pass and then the debounced event loop.       *)
(***************************************************************************)
WatchFixtures == {"web1", "web2"}

PassSteps == {"scan", "generate", "validate", "reload"}

Perms(S) ==
    {f \in [1..Cardinality(S) -> S] : \A i, j \in 1..Cardinality(S) : i # j => f[i] # f[j]}

\* the lists ScanContainers can return: the live containers in any order
ScanOrders(names) == {[i \in DOMAIN f |-> Fixture(f[i])] : f \in Perms(names)}

\* variant: the select statement is entered while a pass is still running
AtSelectWhilePassRuns == pc # "exited"

\* the controller is blocked in the select statement of the event loop
AtSelect == pc = "select"

\* variant: Reset is skipped when the timer is already running
ResetOnlyIfStopped(armed, deadline, t) == IF armed THEN deadline ELSE t + DebounceDelay

\* debounceTimer.Reset(2 * time.Second)
ResetDeadline(armed, deadline, t) == t + DebounceDelay

\* variant: the unchanged result does not end the pass
NeverSkip(changed) == FALSE

\* generateAndReload returns early when Generate reports no change
SkipWhenUnchanged(changed) == ~changed

\* variant: the reloader is invoked whatever the validator returned
ReloadRegardless(ok) == TRUE

\* generateAndReload goes on to reload only when Validate returned nil
ReloadAfterValidate(ok) == ok

\* Reloader.Reload runs the command once ReloadMinInterval has passed since lastReload
ReloadReady(last, t) == last = NeverReloaded \/ t - last >= ReloadMinInterval

Init ==
    /\ WatchInit
    /\ now = 0
    /\ input = <<>>
    /\ verdict = NoVerdict
    \* the documents are absent, or were left by a run that ended this very
    \* second; the proxy has loaded what is on disk
    /\ \E left \in BOOLEAN :
          /\ streamFile = IF left THEN FileWith(RenderStream(buildTemplateData(<<>>, 0).stream))
                                  ELSE Missing
          /\ httpFile = IF left THEN FileWith(RenderHTTP(buildTemplateData(<<>>, 0).http))
                                ELSE Missing
    /\ nginxLoaded = <<streamFile, httpFile>>

Running == pc # "exited"

\* a second passes, up to the horizon of the specification
ClockAdvance(horizon) ==
    /\ Running
    /\ now < horizon
    /\ now' = now + 1
    /\ UNCHANGED <<streamFile, httpFile, input, verdict>>
    /\ UNCHANGED watchVars

Tick == ClockAdvance(MaxTime)

Subscribed == src \in {"select", "send"}

\* a container starts or dies; the runtime reports it to an active subscription
ContainerChange(limit, names) ==
    /\ Running
    /\ emitted < limit
    /\ emitted' = emitted + 1
    /\ \E name \in names :
          /\ live' = IF name \in live THEN live \ {name} ELSE live \cup {name}
          /\ dockerStream' =
                IF Subscribed /\ ~dockerErr
                THEN Append(dockerStream,
                            [Type |-> IF name \in live THEN "die" ELSE "start", Name |-> name])
                ELSE dockerStream
    /\ UNCHANGED <<now, dockerErr, src, held, eventCh, errCh, chClosed, sigCh, ctxDone, pc,
                   initial, exitErr, pendingReload, timerArmed, timerDeadline, scanned,
                   streamFile, httpFile, nginxLoaded, lastReload, pass, burst, activePasses,
                   input, verdict>>

RuntimeChange == ContainerChange(MaxEvents, WatchFixtures)

\* the runtime's event stream breaks
RuntimeStreamError ==
    /\ Running
    /\ Subscribed
    /\ ~dockerErr
    /\ dockerErr' = TRUE
    /\ UNCHANGED <<now, live, dockerStream, src, held, eventCh, errCh, chClosed, sigCh, ctxDone,
                   pc, initial, exitErr, pendingReload, timerArmed, timerDeadline, scanned,
                   streamFile, httpFile, nginxLoaded, lastReload, pass, emitted, burst,
                   activePasses, input, verdict>>

\* SIGINT or SIGTERM arrives.  After signal.Notify it is queued in sigCh
\* (capacity 1); before, during the initial generation, the Go runtime's
\* default disposition ends the process at once.
Signal ==
    /\ Running
    /\ IF initial
       THEN /\ pc' = "exited"
            /\ exitErr' = "killed by signal"
            /\ UNCHANGED sigCh
       ELSE /\ ~sigCh
            /\ sigCh' = TRUE
            /\ UNCHANGED <<pc, exitErr>>
    /\ UNCHANGED <<now, live, dockerStream, dockerErr, src, held, eventCh, errCh, chClosed,
                   ctxDone, initial, pendingReload, timerArmed, timerDeadline,
                   scanned, streamFile, httpFile, nginxLoaded, lastReload, pass, emitted,
                   burst, activePasses, input, verdict>>

(***************************************************************************)
(* docker.Client.WatchEvents: the subscription goroutine.                  *)
(***************************************************************************)
\* case event := <-eventStream
SrcRecvEvent ==
    /\ src = "select"
    /\ dockerStream # <<>>
    /\ held' = Head(dockerStream)
    /\ dockerStream' = Tail(dockerStream)
    /\ src' = "send"
    /\ UNCHANGED <<now, live, dockerErr, eventCh, errCh, chClosed, sigCh, ctxDone, pc, initial,
                   exitErr, pendingReload, timerArmed, timerDeadline, scanned, streamFile,
                   httpFile, nginxLoaded, lastReload, pass, emitted, burst, activePasses,
                   input, verdict>>

\* eventCh <- containerEvent, which blocks while the buffer is full
SrcSend ==
    /\ src = "send"
    /\ Len(eventCh) < EventChCap
    /\ eventCh' = Append(eventCh, held)
    /\ held' = NoEvent
    /\ src' = "select"
    /\ UNCHANGED <<now, live, dockerStream, dockerErr, errCh, chClosed, sigCh, ctxDone, pc,
                   initial, exitErr, pendingReload, timerArmed, timerDeadline, scanned,
                   streamFile, httpFile, nginxLoaded, lastReload, pass, emitted, burst,
                   activePasses, input, verdict>>

\* case err := <-eventErrCh: errCh <- err; return (the deferred calls close both channels)
SrcRecvErr ==
    /\ src = "select"
    /\ dockerErr
    /\ errCh' = Append(errCh, "stream error")
    /\ chClosed' = TRUE
    /\ src' = "done"
    /\ UNCHANGED <<now, live, dockerStream, dockerErr, held, eventCh, sigCh, ctxDone, pc,
                   initial, exitErr, pendingReload, timerArmed, timerDeadline, scanned,
                   streamFile, httpFile, nginxLoaded, lastReload, pass, emitted, burst,
                   activePasses, input, verdict>>

\* case <-ctx.Done(): return
SrcCtxDone ==
    /\ src = "select"
    /\ ctxDone
    /\ chClosed' = TRUE
    /\ src' = "done"
    /\ UNCHANGED <<now, live, dockerStream, dockerErr, held, eventCh, errCh, sigCh, ctxDone, pc,
                   initial, exitErr, pendingReload, timerArmed, timerDeadline, scanned,
                   streamFile, httpFile, nginxLoaded, lastReload, pass, emitted, burst,
                   activePasses, input, verdict>>

(***************************************************************************)
(* cmd.generateAndReload, one step at a time, and its two callers in       *)
(* watchCmd: the initial generation and the debounce timer case.           *)
(***************************************************************************)
\* variant: watchCmd returns the error of any failed pass
AnyFailureFatal(isInitial, err) == err # "none"

\* only the error of the initial generation makes watchCmd return
FatalToController(isInitial, err) == isInitial /\ err # "none"

\* generateAndReload returns p.err to watchCmd
EndPass(p) ==
    /\ pass' = [p EXCEPT !.done = TRUE]
    /\ activePasses' = activePasses - 1
    /\ pendingReload' = FALSE
    /\ scanned' = <<>>
    /\ IF FatalToController(initial, p.err)
       THEN \* return logError("initial generation failed: %w", err); defer cancel()
            /\ pc' = "exited"
            /\ exitErr' = "initial generation failed"
            /\ ctxDone' = TRUE
            /\ UNCHANGED <<src, initial>>
       ELSE IF initial
       THEN \* WatchEvents starts the goroutine, signal.Notify, the timer is drained
            /\ pc' = "select"
            /\ src' = "select"
            /\ initial' = FALSE
            /\ UNCHANGED <<exitErr, ctxDone>>
       ELSE \* regeneration failed is logged only; pendingReload = false
            /\ pc' = "select"
            /\ UNCHANGED <<src, initial, exitErr, ctxDone>>

\* containers, err := dockerClient.ScanContainers(ctx)
PassScan ==
    /\ pc = "scan"
    /\ \/ EndPass([pass EXCEPT !.trace = Append(@, "enumerate"), !.err = "scan"])
       \/ /\ \E list \in ScanOrders(live) : scanned' = list
          /\ pass' = [pass EXCEPT !.trace = Append(@, "enumerate")]
          /\ pc' = "generate"
          /\ UNCHANGED <<activePasses, pendingReload, exitErr, ctxDone, src, initial>>
    /\ UNCHANGED <<now, live, dockerStream, dockerErr, held, eventCh, errCh, chClosed, sigCh,
                   timerArmed, timerDeadline, streamFile, httpFile, nginxLoaded, lastReload,
                   emitted, burst, input, verdict>>

\* changed, err := gen.Generate(containers)
PassGenerate ==
    /\ pc = "generate"
    /\ \E ioS, ioH \in IOOutcomes :
        \E res \in {Generate(scanned, now, streamFile, httpFile, ioS, ioH)} :
          LET p   == [pass EXCEPT
                        !.trace = @ \o (IF res.err = "conflict" THEN <<"conflict">>
                                                                ELSE <<"conflict", "commit">>),
                        !.changed = res.changed,
                        !.err = res.err,
                        !.wrote = (res.streamFile # streamFile \/ res.httpFile # httpFile),
                        !.stale = (nginxLoaded # <<streamFile, httpFile>>)]
          IN  /\ streamFile' = res.streamFile
              /\ httpFile' = res.httpFile
              /\ IF res.err # "none" \/ SkipWhenUnchanged(res.changed)
                 THEN EndPass(p)
                 ELSE /\ pass' = p
                      /\ pc' = "validate"
                      /\ UNCHANGED <<activePasses, pendingReload, exitErr, ctxDone, src, initial,
                                     scanned>>
    /\ UNCHANGED <<now, live, dockerStream, dockerErr, held, eventCh, errCh, chClosed, sigCh,
                   timerArmed, timerDeadline, nginxLoaded, lastReload, emitted, burst,
                   input, verdict>>

\* variant: a document the proxy rejected is removed again
RemoveRejected(file, ok) == IF ok THEN file ELSE Missing

\* a document after val.Validate(): nginx -t only reads it, and a failed
\* validation is returned to the caller with the document left in place
AfterValidate(file, ok) == file

\* val.Validate(): nginx -t on whatever is on disk
PassValidate ==
    /\ pc = "validate"
    /\ \E ok \in BOOLEAN :
          LET p == [pass EXCEPT !.trace = Append(@, "validate"),
                                !.valid = ok,
                                !.err = IF ok THEN "none" ELSE "validation"]
          IN  /\ IF ReloadAfterValidate(ok)
                 THEN /\ pass' = p
                      /\ pc' = "reload"
                      /\ UNCHANGED <<activePasses, pendingReload, exitErr, ctxDone, src,
                                     initial, scanned>>
                 ELSE EndPass(p)
              /\ streamFile' = AfterValidate(streamFile, ok)
              /\ httpFile' = AfterValidate(httpFile, ok)
    /\ UNCHANGED <<now, live, dockerStream, dockerErr, held, eventCh, errCh, chClosed, sigCh,
                   timerArmed, timerDeadline, nginxLoaded,
                   lastReload, emitted, burst, input, verdict>>

\* reload.Reload(): the proxy loads the documents on disk when the command succeeds
PassReload ==
    /\ pc = "reload"
    /\ ReloadReady(lastReload, now)
    /\ \E ok \in BOOLEAN :
          /\ lastReload' = IF ok THEN now ELSE lastReload
          /\ nginxLoaded' = IF ok THEN <<streamFile, httpFile>> ELSE nginxLoaded
          /\ EndPass([pass EXCEPT !.trace = Append(@, "reload"),
                                  !.loaded = ok,
                                  !.err = IF ok THEN "none" ELSE "reload"])
    /\ UNCHANGED <<now, live, dockerStream, dockerErr, held, eventCh, errCh, chClosed, sigCh,
                   timerArmed, timerDeadline, streamFile, httpFile, emitted, burst,
                   input, verdict>>

(***************************************************************************)
(* watchCmd: the cases of the select statement of the event loop.          *)
(***************************************************************************)
\* case event := <-eventCh (a closed and drained channel yields zero events)
RecvEvent ==
    /\ AtSelect
    /\ eventCh # <<>> \/ chClosed
    /\ eventCh' = IF eventCh # <<>> THEN Tail(eventCh) ELSE eventCh
    /\ pendingReload' = TRUE
    /\ timerArmed' = TRUE
    /\ timerDeadline' = ResetDeadline(timerArmed, timerDeadline, now)
    /\ burst' = IF timerArmed
                THEN [burst EXCEPT !.len = Min(@ + 1, BurstCap), !.lastRecv = now,
                                   !.parity = 1 - @]
                ELSE [open |-> TRUE, len |-> 1, passes |-> 0, lastRecv |-> now,
                      parity |-> 1 - burst.parity]
    /\ UNCHANGED <<now, live, dockerStream, dockerErr, src, held, errCh, chClosed, sigCh,
                   ctxDone, pc, initial, exitErr, scanned, streamFile, httpFile, nginxLoaded,
                   lastReload, pass, emitted, activePasses, input, verdict>>

\* variant: the timer case runs no pass
TimerFireIdle ==
    /\ AtSelect
    /\ timerArmed
    /\ now >= timerDeadline
    /\ timerArmed' = FALSE
    /\ timerDeadline' = 0
    /\ UNCHANGED <<now, live, dockerStream, dockerErr, src, held, eventCh, errCh, chClosed,
                   sigCh, ctxDone, initial, exitErr, pendingReload, scanned, pc, pass,
                   activePasses, burst,
                   streamFile, httpFile, nginxLoaded, lastReload, emitted, input, verdict>>

\* case <-debounceTimer.C
TimerFire ==
    /\ AtSelect
    /\ timerArmed
    /\ now >= timerDeadline
    /\ timerArmed' = FALSE
    /\ timerDeadline' = 0
    /\ IF pendingReload
       THEN /\ pc' = "scan"
            /\ pass' = NewPass(now)
            /\ activePasses' = activePasses + 1
            /\ burst' = [burst EXCEPT !.open = FALSE, !.passes = @ + 1]
       ELSE UNCHANGED <<pc, pass, activePasses, burst>>
    /\ UNCHANGED <<now, live, dockerStream, dockerErr, src, held, eventCh, errCh, chClosed,
                   sigCh, ctxDone, initial, exitErr, pendingReload, scanned,
                   streamFile, httpFile, nginxLoaded, lastReload, emitted, input, verdict>>

\* variant: the select statement has no case for errCh
ErrChIgnored == FALSE

\* a receive from errCh can proceed: an error is buffered or the channel is closed
ErrChReady == errCh # <<>> \/ chClosed

\* case err := <-errCh
RecvErr ==
    /\ AtSelect
    /\ ErrChReady
    /\ errCh' = IF errCh # <<>> THEN Tail(errCh) ELSE errCh
    /\ pc' = "exited"
    /\ exitErr' = "event stream error"
    /\ ctxDone' = TRUE
    /\ UNCHANGED <<now, live, dockerStream, dockerErr, src, held, eventCh, chClosed, sigCh,
                   initial, pendingReload, timerArmed, timerDeadline, scanned, streamFile,
                   httpFile, nginxLoaded, lastReload, pass, emitted, burst, activePasses,
                   input, verdict>>

\* case sig := <-sigCh: cancel(); return nil
RecvSignal ==
    /\ AtSelect
    /\ sigCh
    /\ sigCh' = FALSE
    /\ ctxDone' = TRUE
    /\ pc' = "exited"
    /\ exitErr' = "nil"
    /\ UNCHANGED <<now, live, dockerStream, dockerErr, src, held, eventCh, errCh, chClosed,
                   initial, pendingReload, timerArmed, timerDeadline, scanned, streamFile,
                   httpFile, nginxLoaded, lastReload, pass, emitted, burst, activePasses,
                   input, verdict>>

Next ==
    \/ Tick
    \/ RuntimeChange
    \/ RuntimeStreamError
    \/ Signal
    \/ SrcRecvEvent
    \/ SrcSend
    \/ SrcRecvErr
    \/ SrcCtxDone
    \/ PassScan
    \/ PassGenerate
    \/ PassValidate
    \/ PassReload
    \/ RecvEvent
    \/ TimerFire
    \/ RecvErr
    \/ RecvSignal

Spec == Init /\ [][Next]_vars

(***************************************************************************)
(* C1: at most one reconciliation pass is in progress at any time.  A pass *)
(* starts only from the select statement with no pass running; while a     *)
(* pass runs the loop receives no event, and the queue of eventCh only     *)
(* grows; an event leaves eventCh only by the loop's receive case, which   *)
(* marks the reload pending.                                               *)
(***************************************************************************)
QueueGrew ==
    /\ Len(eventCh') = Len(eventCh) + 1
    /\ SubSeq(eventCh', 1, Len(eventCh)) = eventCh

QueueTaken ==
    /\ eventCh # <<>>
    /\ eventCh' = Tail(eventCh)
    /\ pc = "select"
    /\ pendingReload'
    /\ burst'.parity # burst.parity

C1_OnePassAtATime ==
    [][ /\ activePasses' <= 1
        /\ activePasses' > activePasses => (activePasses = 0 /\ pc = "select")
        /\ pc \in PassSteps => (burst' = burst /\ (eventCh' = eventCh \/ QueueGrew))
        /\ eventCh' # eventCh => (QueueGrew \/ QueueTaken) ]_vars

\* an event is waiting in eventCh while an event-triggered pass is running
C1_Witness == pc \in PassSteps /\ ~initial /\ eventCh # <<>>

(***************************************************************************)
(* C2: a burst of events, each received before the timer armed by the      *)
(* previous one has fired, triggers exactly one pass, and that pass starts *)
(* no earlier than DebounceDelay after the last event of the burst: every  *)
(* received event re-arms the timer.                                       *)
(***************************************************************************)
C2_OnePassPerBurst ==
    /\ burst.passes <= 1
    /\ burst.open =>
          /\ burst.passes = 0
          /\ timerArmed
          /\ pendingReload
          /\ timerDeadline = burst.lastRecv + DebounceDelay
    /\ (burst.len >= 1 /\ ~burst.open) =>
          /\ burst.passes = 1
          /\ ~timerArmed
          /\ pass.startedAt >= burst.lastRecv + DebounceDelay

\* a burst of at least two events has triggered its pass
C2_Witness == burst.len >= 2 /\ ~burst.open /\ burst.passes = 1 /\ pc \in PassSteps

(***************************************************************************)
(* C3: the steps of a pass run in the order enumerate, conflict            *)
(* validation, render/commit, validate configuration, reload; the          *)
(* validator runs only after a commit that reported changed, the reloader  *)
(* only after the validator succeeded in the same pass.                    *)
(***************************************************************************)
FullOrder == <<"enumerate", "conflict", "commit", "validate", "reload">>

IsPrefixOf(s1, s2) == Len(s1) <= Len(s2) /\ SubSeq(s2, 1, Len(s1)) = s1

C3_StepOrder ==
    /\ IsPrefixOf(pass.trace, FullOrder)
    /\ "validate" \in Range(pass.trace) => pass.changed
    /\ "reload" \in Range(pass.trace) => ("validate" \in Range(pass.trace) /\ pass.valid)
    /\ (pass.done /\ ~pass.changed) => Range(pass.trace) \cap {"validate", "reload"} = {}

\* an event-triggered pass has run all five steps
C3_Witness == ~initial /\ pass.done /\ pass.trace = FullOrder /\ pass.err = "none"

\* a pass whose commit reported unchanged has ended after the commit
C3_UnchangedReached ==
    pass.done /\ pass.err = "none" /\ ~pass.changed
              /\ pass.trace = <<"enumerate", "conflict", "commit">>

(***************************************************************************)
(* C4: a pass whose conflict validation fails commits nothing: no document *)
(* on disk is replaced, Generate reports changed = false with the conflict *)
(* error, and neither the validator nor the reloader runs.                 *)
(***************************************************************************)
C4_ConflictCommitsNothing ==
    pass.err = "conflict" =>
        /\ pass.done
        /\ ~pass.wrote
        /\ ~pass.changed
        /\ pass.trace = <<"enumerate", "conflict">>

\* an event-triggered pass hit a conflict while documents were on disk
C4_Witness == ~initial /\ pass.err = "conflict" /\ streamFile.exists /\ httpFile.exists

C10_OldFilesKeptOnValidationFailure ==
    (~initial /\ pass.done /\ pass.err = "validation") => ~pass.wrote

(***************************************************************************)
(* LiveSpec: the watch command under the scheduling the program has.  The  *)
(* controller inside generateAndReload takes its next step, and so does    *)
(* the goroutine's channel send (weak fairness); a select statement picks  *)
(* among its ready cases at random, so a case that is ready again and      *)
(* again is taken at some point (strong fairness).                         *)
(***************************************************************************)
PassStep == PassScan \/ PassGenerate \/ PassValidate \/ PassReload

Fairness ==
    /\ WF_vars(PassStep)
    /\ WF_vars(SrcSend)
    /\ SF_vars(SrcRecvErr)
    /\ SF_vars(SrcCtxDone)
    /\ SF_vars(RecvErr)
    /\ SF_vars(RecvSignal)

LiveTick == ClockAdvance(LiveMaxTime)

LiveRuntimeChange == ContainerChange(LiveMaxEvents, WatchFixtures)

LiveNext ==
    \/ LiveTick
    \/ LiveRuntimeChange
    \/ RuntimeStreamError
    \/ Signal
    \/ SrcRecvEvent
    \/ SrcSend
    \/ SrcRecvErr
    \/ SrcCtxDone
    \/ PassScan
    \/ PassGenerate
    \/ PassValidate
    \/ PassReload
    \/ RecvEvent
    \/ TimerFire
    \/ RecvErr
    \/ RecvSignal

LiveSpec == Init /\ [][LiveNext]_vars /\ Fairness

(***************************************************************************)
(* C11 (as stated): watchCmd returns only because of the event stream's    *)
(* termination or a shutdown signal; every failed pass, the initial one    *)
(* included, leaves the controller running and waiting at the select       *)
(* statement.                                                              *)
(***************************************************************************)
ExitOnStreamOrSignal == {"event stream error", "nil", "killed by signal"}

C11_AnyFailedPassKeepsRunning ==
    /\ [](exitErr \in {"running"} \cup ExitOnStreamOrSignal)
    /\ [][ (pc \in PassSteps /\ pass'.done /\ pass'.err # "none") =>
               (pc' = "select" /\ exitErr' = "running") ]_vars

(***************************************************************************)
(* C11 (amended): a failed event-triggered pass, whatever step failed,     *)
(* leaves the controller running and waiting at the select statement;      *)
(* watchCmd returns only because of a failed initial pass, the event       *)
(* stream's termination or a shutdown signal, and a failed initial pass    *)
(* always makes it return with "initial generation failed".                *)
(***************************************************************************)
C11_FailedEventPassKeepsRunning ==
    /\ [](exitErr \in {"running", "initial generation failed"} \cup ExitOnStreamOrSignal)
    /\ [](exitErr = "initial generation failed" =>
             (initial /\ pass.done /\ pass.err # "none" /\ pc = "exited"))
    /\ [][ (pc \in PassSteps /\ pass'.done /\ pass'.err # "none") =>
               IF initial THEN pc' = "exited" /\ exitErr' = "initial generation failed"
                          ELSE pc' = "select" /\ exitErr' = "running" ]_vars

\* an event-triggered pass has failed and the controller waits for events again
C11_Witness ==
    ~initial /\ pass.done /\ pass.err \in {"scan", "conflict", "stream", "validation", "reload"}
             /\ pc = "select" /\ exitErr = "running"

\* the initial pass has failed and watchCmd has returned
C11_InitialFailureExits == initial /\ pass.done /\ pass.err # "none" /\ pc = "exited"

(***************************************************************************)
(* C12: watchCmd starts in the initial pass, whatever the runtime does;    *)
(* until that pass has returned the controller is not in the event loop,   *)
(* the subscription does not exist, and no event is taken from eventCh;    *)
(* the event loop is entered only from the completed initial pass.         *)
(***************************************************************************)
C12_InitialPassFirst ==
    /\ (IF initial THEN pc = "scan" /\ emitted = 0 ELSE FALSE)
    /\ [](initial => /\ pc \in PassSteps \cup {"exited"}
                     /\ src = "notStarted"
                     /\ eventCh = <<>>
                     /\ burst = NoBurst
                     /\ ~pendingReload)
    /\ [][ (initial /\ ~initial') => (pass'.done /\ pass'.err = "none" /\ pc' = "select") ]_vars

\* the initial pass has completed although no container event has occurred
C12_Witness ==
    ~initial /\ pass.done /\ emitted = 0 /\ burst = NoBurst /\ pc = "select"

\* a container changed while the initial pass was still running
C12_ChangeDuringInitialPass == initial /\ emitted > 0 /\ pc \in PassSteps

C14_NoEventAfterTerminalError ==
    /\ [](Len(errCh) <= 1)
    /\ [][ errCh' # errCh /\ Len(errCh') > Len(errCh) => (src = "select" /\ src' = "done") ]_vars
    /\ [][ (src = "done" /\ dockerErr) => burst' = burst ]_vars

(***************************************************************************)
(* C16: a shutdown signal eventually makes watchCmd cancel the context and *)
(* return nil, from every state of the controller; a pass in flight when   *)
(* the signal arrives runs to its end first.                               *)
(***************************************************************************)
SignalArrived == sigCh \/ exitErr = "killed by signal"

C16_SignalShutsDownGracefully ==
    /\ SignalArrived ~> (pc = "exited" /\ ctxDone /\ exitErr = "nil")
    /\ [][ (pc \in PassSteps /\ (sigCh \/ SignalArrived')) =>
              (pc' \in PassSteps \cup {"select"} /\ ~ctxDone') ]_vars

(***************************************************************************)
(* FloodSpec: the watch command while one container is restarted over and  *)
(* over (up to MaxFlood lifecycle events), with no stream error.           *)
(***************************************************************************)
FloodInit ==
    /\ WatchInit
    /\ now = 0
    /\ input = <<>>
    /\ verdict = NoVerdict
    /\ streamFile = Missing
    /\ httpFile = Missing
    /\ nginxLoaded = <<Missing, Missing>>

Flood == ContainerChange(MaxFlood, {"web1"})

FloodNext ==
    \/ LiveTick
    \/ Flood
    \/ Signal
    \/ SrcRecvEvent
    \/ SrcSend
    \/ SrcCtxDone
    \/ PassScan
    \/ PassGenerate
    \/ PassValidate
    \/ PassReload
    \/ RecvEvent
    \/ TimerFire
    \/ RecvSignal

FloodSpec == FloodInit /\ [][FloodNext]_vars

(***************************************************************************)
(* C15: the subscription goroutine is never blocked in its send on         *)
(* eventCh, however many events the runtime produces while the controller  *)
(* is inside a pass.                                                       *)
(***************************************************************************)
C15_SendNeverBlocks ==
    ~(src = "send" /\ Len(eventCh) >= EventChCap /\ pc \in PassSteps)

(***************************************************************************)
(* C17: once the context is cancelled, the subscription goroutine, in      *)
(* whatever state it is (waiting in its select or sending on eventCh),     *)
(* eventually returns and closes eventCh and errCh.  Stated as the safety  *)
(* property this requires: after the cancellation, and until it has        *)
(* returned, the goroutine is able to take a step (once watchCmd has       *)
(* returned nothing else changes the channels, so a goroutine that cannot  *)
(* step then never returns).                                               *)
(***************************************************************************)
SrcStep == SrcRecvEvent \/ SrcSend \/ SrcRecvErr \/ SrcCtxDone

C17_GoroutineExitsOnCancel ==
    /\ (ctxDone /\ Subscribed) => ENABLED SrcStep
    /\ (src = "done") => chClosed

(***************************************************************************)
(* Label parsing: strings.Split, strings.TrimSpace, strconv.Atoi and       *)
(* docker.parsePortMappings.  A label value is a sequence of characters;   *)
(* a label that is absent reads as the empty string.                       *)
(***************************************************************************)
Digits == <<"0", "1", "2", "3", "4", "5", "6", "7", "8", "9">>

IsDigit(ch) == \E i \in DOMAIN Digits : Digits[i] = ch

DigitVal(ch) == (CHOOSE i \in DOMAIN Digits : Digits[i] = ch) - 1

\* the value of a digit string; values above 65535 are all out of range for
\* a port (and past 64 bits strconv.Atoi fails, with the same outcome), so
\* the value saturates at 65536
RECURSIVE DecVal(_)
DecVal(ds) ==
    IF ds = <<>> THEN 0
    ELSE Min(DecVal(SubSeq(ds, 1, Len(ds) - 1)) * 10 + DigitVal(ds[Len(ds)]), 65535 + 1)

\* strconv.Atoi: an optional sign followed by at least one decimal digit
Atoi(str) ==
    LET signed == str # <<>> /\ Head(str) \in {"+", "-"}
        ds     == IF signed THEN Tail(str) ELSE str
    IN  IF ds = <<>> \/ \E i \in DOMAIN ds : ~IsDigit(ds[i])
        THEN [err |-> TRUE, val |-> 0]
        ELSE [err |-> FALSE,
              val |-> IF str[1] = "-" THEN 0 - DecVal(ds) ELSE DecVal(ds)]

RECURSIVE TrimSpace(_)
TrimSpace(str) ==
    IF str # <<>> /\ Head(str) = " " THEN TrimSpace(Tail(str))
    ELSE IF str # <<>> /\ str[Len(str)] = " " THEN TrimSpace(SubSeq(str, 1, Len(str) - 1))
    ELSE str

\* strings.Split: the pieces between the separators; no separator, one piece
RECURSIVE Split(_, _)
Split(str, sep) ==
    LET at == {i \in DOMAIN str : str[i] = sep}
    IN  IF at = {} THEN <<str>>
        ELSE LET i == CHOOSE j \in at : \A k \in at : j <= k
             IN  <<SubSeq(str, 1, i - 1)>> \o Split(SubSeq(str, i + 1, Len(str)), sep)

\* variant: port 0 is accepted
PortNotNegative(n) == n >= 0 /\ n <= 65535

PortInRange(n) == n >= 1 /\ n <= 65535

PortError == [err |-> TRUE, mapping |-> PortMapping(0, 0, TCP)]

PortPair(p, c) ==
    IF p.err \/ c.err THEN PortError
    ELSE IF ~PortInRange(p.val) \/ ~PortInRange(c.val) THEN PortError
    ELSE [err |-> FALSE, mapping |-> PortMapping(p.val, c.val, TCP)]

\* one token of the label: "proxy:container" or "port"
ParsePart(part) ==
    IF ":" \in Range(part)
    THEN LET splits == Split(part, ":")
         IN  IF Len(splits) # 2 THEN PortError
             ELSE PortPair(Atoi(TrimSpace(splits[1])), Atoi(TrimSpace(splits[2])))
    ELSE PortPair(Atoi(part), Atoi(part))

\* variant: a token that fails to parse is dropped and the mappings parsed so far are kept
KeepParsedSoFar(parsed) == [err |-> FALSE, mappings |-> parsed]

\* return nil, fmt.Errorf(...): no mappings at all
OnPortError(parsed) == [err |-> TRUE, mappings |-> <<>>]

RECURSIVE ParseParts(_, _)
ParseParts(parts, parsed) ==
    IF parts = <<>> THEN [err |-> FALSE, mappings |-> parsed]
    ELSE IF TrimSpace(Head(parts)) = <<>> THEN ParseParts(Tail(parts), parsed)
    ELSE IF ParsePart(TrimSpace(Head(parts))).err THEN OnPortError(parsed)
    ELSE ParseParts(Tail(parts), Append(parsed, ParsePart(TrimSpace(Head(parts))).mapping))

parsePortMappings(str) == ParseParts(Split(str, ","), <<>>)

(***************************************************************************)
(* docker.Client.parseContainer and ScanContainers.  A listed container is *)
(* its name (after the leading slash is trimmed), its short ID, the result *)
(* of ContainerInspect (InspectOK, IPAddress, the addresses of its         *)
(* networks) and its five proxy labels.                                    *)
(***************************************************************************)
NoLabels == [tcp |-> <<>>, udp |-> <<>>, host |-> <<>>, port |-> <<>>, https |-> <<>>]

Listed(name, id, inspectOK, ip, networks, labels) ==
    [Name |-> name, ID |-> id, InspectOK |-> inspectOK, IPAddress |-> ip,
     Networks |-> networks, Labels |-> labels]

\* the address of the first network that has one, "" if there is none
NetworkAddress(networks) ==
    LET with == SelectSeq(networks, LAMBDA a : a # "")
    IN  IF with = <<>> THEN "" ELSE Head(with)

AddressOf(ctr) ==
    IF ctr.IPAddress # "" THEN ctr.IPAddress ELSE NetworkAddress(ctr.Networks)

WithProtocol(mappings, proto) ==
    [i \in DOMAIN mappings |-> [mappings[i] EXCEPT !.Protocol = proto]]

ParsePortLabel(label) ==
    IF label = <<>> THEN [err |-> FALSE, mappings |-> <<>>] ELSE parsePortMappings(label)

Hostnames(label) == [i \in DOMAIN Split(label, ",") |-> TrimSpace(Split(label, ",")[i])]

\* proxy.http.port: 80 when the label is empty
HTTPPort(label) ==
    IF label = <<>> THEN [err |-> FALSE, val |-> 80]
    ELSE IF Atoi(TrimSpace(label)).err THEN [err |-> TRUE, val |-> 0]
    ELSE IF ~PortInRange(Atoi(TrimSpace(label)).val) THEN [err |-> TRUE, val |-> 0]
    ELSE Atoi(TrimSpace(label))

\* variant: the flag is compared without lower-casing
HTTPSFlagCaseSensitive(label) ==
    /\ label # <<>>
    /\ TrimSpace(label) = <<"t", "r", "u", "e">>

HTTPSFlag(label) ==
    /\ label # <<>>
    /\ [i \in DOMAIN TrimSpace(label) |-> ToLower(TrimSpace(label)[i])] = <<"t", "r", "u", "e">>

Skipped == [kind |-> "skip", info |-> ContainerInfo("", "", "", <<>>, NoHTTPMapping)]

Failed == [kind |-> "error", info |-> ContainerInfo("", "", "", <<>>, NoHTTPMapping)]

parseContainer(ctr) ==
    IF ~ctr.InspectOK THEN Failed
    ELSE IF AddressOf(ctr) = "" THEN Skipped
    ELSE IF ctr.Labels.tcp = <<>> /\ ctr.Labels.udp = <<>> /\ ctr.Labels.host = <<>> THEN Skipped
    ELSE IF ParsePortLabel(ctr.Labels.tcp).err THEN Failed
    ELSE IF ParsePortLabel(ctr.Labels.udp).err THEN Failed
    ELSE IF ctr.Labels.host # <<>> /\ HTTPPort(ctr.Labels.port).err THEN Failed
    ELSE [kind |-> "ok",
          info |-> ContainerInfo(ctr.Name, ctr.ID, AddressOf(ctr),
                     WithProtocol(ParsePortLabel(ctr.Labels.tcp).mappings, TCP) \o
                     WithProtocol(ParsePortLabel(ctr.Labels.udp).mappings, UDP),
                     IF ctr.Labels.host = <<>> THEN NoHTTPMapping
                     ELSE HTTPMapping(Hostnames(ctr.Labels.host),
                                      HTTPPort(ctr.Labels.port).val,
                                      HTTPSFlag(ctr.Labels.https)))]

\* ContainerList failed: no results; otherwise every container that parsed, in list order
ScanContainers(listed, listOK) ==
    IF ~listOK THEN [err |-> TRUE, results |-> <<>>]
    ELSE [err |-> FALSE,
          results |-> Flatten([i \in DOMAIN listed |->
                         IF parseContainer(listed[i]).kind = "ok"
                         THEN <<parseContainer(listed[i]).info>> ELSE <<>>])]

(***************************************************************************)
(* ScanSpec: ScanContainers applied to every list of at most MaxScan       *)
(* different listed containers.  Each container is given with what is      *)
(* wrong with it ("none" when it is a well-formed routing target) and, for *)
(* a well-formed one, the ContainerInfo its labels describe.               *)
(***************************************************************************)
NoInfo == ContainerInfo("", "", "", <<>>, NoHTTPMapping)

ScanCase(ctr, defect, expect) == [ctr |-> ctr, defect |-> defect, expect |-> expect]

ScanCases ==
    {ScanCase(Listed("web", "web-id", TRUE, "172.17.0.2", <<>>,
                    [NoLabels EXCEPT !.tcp = <<"8", "0", ":", "8", "0", "8", "0">>, !.host = <<"a", ".", "x">>]),
              "none", ContainerInfo("web", "web-id", "172.17.0.2", <<PortMapping(80, 8080, TCP)>>,
                               HTTPMapping(<<HostA>>, 80, FALSE))),
     ScanCase(Listed("dns", "dns-id", TRUE, "", <<"", "10.0.0.5">>,
                    [NoLabels EXCEPT !.udp = <<" ", "5", "3", " ", ",", " ", "8", "0", " ", ":", " ", "8", "0", "8", "0">>]),
              "none", ContainerInfo("dns", "dns-id", "10.0.0.5",
                               <<PortMapping(53, 53, UDP), PortMapping(80, 8080, UDP)>>,
                               NoHTTPMapping)),
     ScanCase(Listed("secure", "secure-id", TRUE, "172.17.0.4", <<>>,
                    [NoLabels EXCEPT !.host = <<"a", ".", "x">>, !.port = <<" ", "8", "4", "4", "3", " ">>, !.https = <<"T", "R", "U", "E">>]),
              "none", ContainerInfo("secure", "secure-id", "172.17.0.4", <<>>,
                               HTTPMapping(<<HostA>>, 8443, TRUE))),
     ScanCase(Listed("uninspectable", "uninspectable-id", FALSE, "172.17.0.5", <<>>,
                    [NoLabels EXCEPT !.tcp = <<"5", "3">>]),
              "inspect", NoInfo),
     ScanCase(Listed("noaddr", "noaddr-id", TRUE, "", <<"">>,
                    [NoLabels EXCEPT !.tcp = <<"5", "3">>]),
              "address", NoInfo),
     ScanCase(Listed("plain", "plain-id", TRUE, "172.17.0.6", <<>>,
                    [NoLabels EXCEPT !.port = <<"8", "0">>]),
              "label", NoInfo),
     ScanCase(Listed("badtcp", "badtcp-id", TRUE, "172.17.0.7", <<>>,
                    [NoLabels EXCEPT !.tcp = <<"8", "0", ",", "x">>, !.host = <<"a", ".", "x">>]),
              "parse", NoInfo),
     ScanCase(Listed("badudp", "badudp-id", TRUE, "172.17.0.8", <<>>,
                    [NoLabels EXCEPT !.tcp = <<"8", "0", ":", "8", "0", "8", "0">>, !.udp = <<"1", ":", "2", ":", "3">>]),
              "parse", NoInfo),
     ScanCase(Listed("badrange", "badrange-id", TRUE, "172.17.0.9", <<>>,
                    [NoLabels EXCEPT !.tcp = <<"5", "3", ",", "7", "0", "0", "0", "0">>]),
              "parse", NoInfo),
     ScanCase(Listed("badhttp", "badhttp-id", TRUE, "172.17.0.10", <<>>,
                    [NoLabels EXCEPT !.tcp = <<"5", "3">>, !.host = <<"a", ".", "x">>, !.port = <<"x">>]),
              "parse", NoInfo),
     \* proxy.http.port is read only together with proxy.http.host
     ScanCase(Listed("stray", "stray-id", TRUE, "172.17.0.11", <<>>,
                    [NoLabels EXCEPT !.tcp = <<"5", "3">>, !.port = <<"x">>]),
              "none", ContainerInfo("stray", "stray-id", "172.17.0.11",
                               <<PortMapping(53, 53, TCP)>>, NoHTTPMapping))}

CaseOf(ctr) == CHOOSE c \in ScanCases : c.ctr = ctr

ScanInit ==
    /\ WatchInit
    /\ now = 0
    /\ streamFile = Missing
    /\ httpFile = Missing
    /\ nginxLoaded = <<Missing, Missing>>
    /\ input = <<>>
    /\ verdict = NoVerdict

\* the runtime lists one more container
ScanAddContainer ==
    /\ ~verdict.called
    /\ Len(input) < MaxScan
    /\ \E c \in ScanCases :
          /\ \A i \in DOMAIN input : input[i] # c.ctr
          /\ input' = Append(input, c.ctr)
    /\ UNCHANGED <<now, streamFile, httpFile, verdict>>
    /\ UNCHANGED watchVars

ScanCall ==
    /\ ~verdict.called
    /\ \E listOK \in BOOLEAN :
          verdict' = [called |-> TRUE, listOK |-> listOK,
                      res |-> ScanContainers(input, listOK)]
    /\ UNCHANGED <<now, streamFile, httpFile, input>>
    /\ UNCHANGED watchVars

ScanNext == ScanAddContainer \/ ScanCall

ScanSpec == ScanInit /\ [][ScanNext]_vars

(***************************************************************************)
(* C18: a container that cannot be inspected, has no address, carries no   *)
(* routing label, or has a port or hostname-port label that fails to parse *)
(* is left out of the scan result entirely: the result is exactly the      *)
(* well-formed containers of the list, in list order, each with the        *)
(* complete ContainerInfo its labels describe, whatever else is listed.    *)
(***************************************************************************)
WellFormed(listed) == SelectSeq(listed, LAMBDA ctr : CaseOf(ctr).defect = "none")

C18_DefectiveContainersExcluded ==
    (verdict.called /\ verdict.listOK) =>
        /\ ~verdict.res.err
        /\ verdict.res.results =
              [i \in DOMAIN WellFormed(input) |-> CaseOf(WellFormed(input)[i]).expect]
        /\ \A i \in DOMAIN input :
              CaseOf(input[i]).defect # "none" =>
                 \A j \in DOMAIN verdict.res.results :
                    verdict.res.results[j].Name # input[i].Name

\* a container with one valid and one invalid token was listed before a
\* well-formed one, and only the well-formed one is in the result
C18_Witness ==
    /\ verdict.called /\ verdict.listOK
    /\ Len(input) = 2
    /\ input[1].Name \in {"badtcp", "badudp", "badrange"}
    /\ CaseOf(input[2]).defect = "none"
    /\ Len(verdict.res.results) = 1
    /\ verdict.res.results[1].Name = input[2].Name

(***************************************************************************)
(* WriteSpec: Generator.writeIfChanged called again and again on one       *)
(* target path with rendered documents (either template, any list of the   *)
(* fixture containers, any second up to MaxTicks) and every outcome of the *)
(* file system calls.  streamFile is the file at the target path.          *)
(***************************************************************************)
WriteLists == UNION {ScanOrders(S) : S \in SUBSET GenFixtures}

WriteContents ==
    {RenderStream(buildTemplateData(l, t).stream) : l \in WriteLists, t \in 0..MaxTicks}
    \cup {RenderHTTP(buildTemplateData(l, t).http) : l \in WriteLists, t \in 0..MaxTicks}

WriteInit ==
    /\ WatchInit
    /\ now = 0
    /\ streamFile = Missing
    /\ httpFile = Missing
    /\ nginxLoaded = <<Missing, Missing>>
    /\ input = <<>>
    /\ verdict = NoVerdict

WriteCall ==
    /\ \E content \in WriteContents, io \in IOOutcomes :
        \E res \in {writeIfChanged(streamFile, content, io)} :
          /\ streamFile' = res.file
          /\ verdict' = [called |-> TRUE, content |-> content, io |-> io,
                         pre |-> streamFile, changed |-> res.changed, err |-> res.err,
                         tmp |-> res.tmp, writes |-> res.writes]
    /\ UNCHANGED <<now, httpFile, input>>
    /\ UNCHANGED watchVars

\* the operator removes the file at the target path
WriteRemoveTarget ==
    /\ streamFile.exists
    /\ streamFile' = Missing
    /\ verdict' = NoVerdict
    /\ UNCHANGED <<now, httpFile, input>>
    /\ UNCHANGED watchVars

WriteNext == WriteCall \/ WriteRemoveTarget

WriteSpec == WriteInit /\ [][WriteNext]_vars

(***************************************************************************)
(* C19: writeIfChanged returns changed = true exactly when the checksum of *)
(* the rendered bytes differs from the checksum of the file at the target  *)
(* path (a missing file counts as empty content and is no error) and the   *)
(* new bytes were put in place; when the checksums are equal it writes     *)
(* nothing, renames nothing and returns no error.                          *)
(***************************************************************************)
C19_ChangedIffChecksumDiffers ==
    verdict.called =>
        /\ (verdict.io = "ok") =>
              /\ ~verdict.err
              /\ verdict.changed <=> checksum(verdict.content) # checksum(verdict.pre.content)
        /\ verdict.changed =>
              /\ checksum(verdict.content) # checksum(verdict.pre.content)
              /\ streamFile = FileWith(verdict.content)
        /\ (verdict.io # "readErr" /\ checksum(verdict.content) = checksum(verdict.pre.content)) =>
              /\ ~verdict.changed /\ ~verdict.err
              /\ verdict.writes = 0
              /\ streamFile = verdict.pre
              /\ verdict.tmp = Missing
        /\ (~verdict.pre.exists /\ verdict.io = "ok") => (verdict.changed /\ streamFile.exists)

\* the same document is written a second time: unchanged, nothing written
C19_Witness ==
    /\ verdict.called /\ verdict.io = "ok"
    /\ verdict.pre.exists
    /\ verdict.pre.content = verdict.content
    /\ ~verdict.changed

\* a document is written where no file existed
C19_MissingBaseline ==
    verdict.called /\ ~verdict.pre.exists /\ verdict.changed /\ streamFile.exists

(***************************************************************************)
(* C20: when reading the existing document fails (other than because it    *)
(* does not exist), or writing the temporary file or renaming it fails,    *)
(* writeIfChanged returns an error and the target path holds exactly what  *)
(* it held before (or is still absent); a partially written document is    *)
(* never at the target path.                                               *)
(***************************************************************************)
C20_FailedCommitLeavesTarget ==
    /\ streamFile.exists => streamFile.content \in WriteContents
    /\ verdict.called =>
        /\ verdict.err <=> (verdict.io = "readErr" \/
                            (verdict.io \in {"writeErr", "renameErr"} /\
                             checksum(verdict.content) # checksum(verdict.pre.content)))
        /\ verdict.err => (~verdict.changed /\ streamFile = verdict.pre)

\* the write of the temporary file failed half-way while an older document
\* was at the target path
C20_Witness ==
    /\ verdict.called /\ verdict.err /\ verdict.io = "writeErr"
    /\ verdict.pre.exists
    /\ verdict.tmp = Partial(verdict.content)
    /\ streamFile = verdict.pre

(***************************************************************************)
(* C21: round trip of a commit.  After every writeIfChanged that returns   *)
(* changed = true, the checksum of the bytes read back from the target     *)
(* path equals the checksum that was computed from the rendered bytes      *)
(* before the write.                                                       *)
(***************************************************************************)
C21_ReadBackMatchesRendered ==
    (verdict.called /\ verdict.changed) =>
        /\ streamFile.exists
        /\ checksum(streamFile.content) = checksum(verdict.content)

\* a document replaced an older, different document at the target path
C21_Witness ==
    /\ verdict.called /\ verdict.changed
    /\ verdict.pre.exists
    /\ verdict.pre.content # verdict.content
    /\ checksum(streamFile.content) = checksum(verdict.content)

(***************************************************************************)
(* C22: the two documents on disk are modified only by the commit step of  *)
(* Generate inside a pass, after the conflict check passed.  Receiving an  *)
(* event, arming or firing the debounce timer, a conflict, nginx -t, the   *)
(* reload, a stream error and the shutdown leave both documents unchanged. *)
(***************************************************************************)
C22_OnlyCommitModifiesFiles ==
    [][(streamFile' # streamFile \/ httpFile' # httpFile) =>
          /\ pc = "generate"
          /\ activePasses = 1
          /\ pass'.err # "conflict"
          /\ pass'.trace = <<"enumerate", "conflict", "commit">>]_vars

\* a pass committed documents and the proxy loaded them; afterwards an event
\* was received and armed the timer, and the documents on disk are still
\* the ones the proxy loaded
C22_Witness ==
    /\ pass.done /\ pass.wrote /\ pass.loaded
    /\ pendingReload /\ timerArmed
    /\ streamFile.exists /\ httpFile.exists
    /\ nginxLoaded = <<streamFile, httpFile>>

(***************************************************************************)
(* RenderSpec: the Docker runtime holds up to two labelled containers;     *)
(* every pass enumerates them in some order (ScanContainers) and hands     *)
(* the resolved containers to Generate.  The file system calls             *)
(* succeed (WriteSpec covers their failures) and the clock stays within    *)
(* one second, so that the header line is the same in every pass.          *)
(***************************************************************************)
RenderNames == {"web1", "web2"}

RenderIP(name) ==
    IF name = "web1" THEN "172.17.0.2" ELSE "172.17.0.3"

RenderLabels ==
    { \* proxy.tcp.ports=80:8080,443:8443  proxy.udp.ports=53
      [NoLabels EXCEPT !.tcp = <<"8", "0", ":", "8", "0", "8", "0", ",",
                                 "4", "4", "3", ":", "8", "4", "4", "3">>,
                       !.udp = <<"5", "3">>],
      \* proxy.tcp.ports=22
      [NoLabels EXCEPT !.tcp = <<"2", "2">>],
      \* proxy.tcp.ports="," : labelled, but without a single claim
      [NoLabels EXCEPT !.tcp = <<",">>],
      \* proxy.http.host=a.x,b.x  proxy.http.port=8080
      [NoLabels EXCEPT !.host = <<"a", ".", "x", ",", "b", ".", "x">>,
                       !.port = <<"8", "0", "8", "0">>],
      \* proxy.http.host=a.x
      [NoLabels EXCEPT !.host = <<"a", ".", "x">>],
      \* proxy.http.host=a-x  proxy.http.https=true
      [NoLabels EXCEPT !.host = <<"a", "-", "x">>, !.https = <<"t", "r", "u", "e">>],
      \* proxy.http.host=A.x,b-x
      [NoLabels EXCEPT !.host = <<"A", ".", "x", ",", "b", "-", "x">>],
      \* proxy.http.host=*.x
      [NoLabels EXCEPT !.host = <<"*", ".", "x">>] }

RenderInit ==
    /\ WatchInit
    /\ now = 0
    /\ streamFile = Missing
    /\ httpFile = Missing
    /\ nginxLoaded = <<Missing, Missing>>
    /\ input = <<>>
    /\ verdict = NoVerdict

\* a labelled container is started before the first pass
RenderStart ==
    /\ ~verdict.called
    /\ \E name \in RenderNames, labels \in RenderLabels :
          /\ \A i \in DOMAIN input : input[i].Name # name
          /\ input' = Append(input, Listed(name, name, TRUE, RenderIP(name), <<>>, labels))
    /\ UNCHANGED <<now, streamFile, httpFile, verdict>>
    /\ UNCHANGED watchVars

\* the orders in which ContainerList can return the running containers
Enumerations(listed) ==
    {[i \in DOMAIN listed |-> listed[f[i]]] : f \in Perms(DOMAIN listed)}

\* one pass: ScanContainers, then Generate
RenderCall ==
    /\ \E list \in Enumerations(input) :
        \E scan \in {ScanContainers(list, TRUE)} :
        \E res \in {Generate(scan.results, now, streamFile, httpFile, "ok", "ok")} :
              /\ streamFile' = res.streamFile
              /\ httpFile' = res.httpFile
              /\ verdict' = [called     |-> TRUE,
                             again      |-> verdict.called /\ verdict.err = "none",
                             containers |-> scan.results,
                             changed    |-> res.changed,
                             err        |-> res.err,
                             preStream  |-> streamFile,
                             preHttp    |-> httpFile]
    /\ UNCHANGED <<now, input>>
    /\ UNCHANGED watchVars

RenderNext == RenderStart \/ RenderCall

RenderSpec == RenderInit /\ [][RenderNext]_vars

(***************************************************************************)
(* C23: rendering is a deterministic, order-stable function of the set of  *)
(* containers.  A pass that follows a successful pass over the same set of *)
(* containers, in whatever order ScanContainers listed them and at         *)
(* whatever time, leaves both documents byte-identical.                    *)
(***************************************************************************)
C23_SameSetSameDocuments ==
    (verdict.called /\ verdict.again /\ verdict.err = "none") =>
        /\ streamFile = verdict.preStream
        /\ httpFile = verdict.preHttp

\* the same property for passes at different seconds, over GenSpec
C23_SameSetAnyTime ==
    (verdict.called /\ verdict.sameSet /\ verdict.err = "none") =>
        /\ streamFile = verdict.preStream
        /\ httpFile = verdict.preHttp

\* what does hold over GenSpec: the same list within the same second
C23_SameListSameSecond ==
    (verdict.called /\ verdict.repeat /\ verdict.sameTime /\ verdict.err = "none") =>
        /\ ~verdict.changed
        /\ streamFile = verdict.preStream
        /\ httpFile = verdict.preHttp

(***************************************************************************)
(* What a successful pass leaves on disk: the lines of the two documents   *)
(* and the containers they were rendered from.                             *)
(***************************************************************************)
Rendered == verdict.called /\ verdict.err = "none"

HTTPLines(kind) == {i \in DOMAIN httpFile.content : httpFile.content[i].kind = kind}

StreamLines(kind) == {i \in DOMAIN streamFile.content : streamFile.content[i].kind = kind}

WithHTTP(containers) == {c \in Range(containers) : c.HTTPMapping.HasHTTP}

HostnamesOf(containers) == UNION {Range(c.HTTPMapping.Hostnames) : c \in WithHTTP(containers)}

LowerLetters ==
    {"a", "b", "c", "d", "e", "f", "g", "h", "i", "j", "k", "l", "m",
     "n", "o", "p", "q", "r", "s", "t", "u", "v", "w", "x", "y", "z"}

UpperLetters == {"A", "B", "E", "R", "T", "U"}

IsLetterOrDigit(ch) == ch \in LowerLetters \cup UpperLetters \/ IsDigit(ch)

\* a hostname built from letters, digits, dots and hyphens
IsPlainHostname(h) ==
    h # <<>> /\ \A i \in DOMAIN h : IsLetterOrDigit(h[i]) \/ h[i] \in {".", "-"}

IdentifierChars == LowerLetters \cup Range(Digits) \cup {"_"}

UpstreamPrefix == <<"h", "t", "t", "p", "_">>

(***************************************************************************)
(* C24: any two different hostnames (of letters, digits, dots and hyphens) *)
(* that pass validateConflicts in one pass get different upstream names,   *)
(* so the HTTP document never defines the same upstream twice.             *)
(***************************************************************************)
C24_DistinctHostnamesDistinctUpstreams ==
    Rendered =>
        /\ \A h1, h2 \in HostnamesOf(verdict.containers) :
              (IsPlainHostname(h1) /\ IsPlainHostname(h2) /\ h1 # h2) =>
                  hostnameToUpstream(h1) # hostnameToUpstream(h2)
        /\ (\A h \in HostnamesOf(verdict.containers) : IsPlainHostname(h)) =>
              \A i, j \in HTTPLines("upstream") :
                  i # j => httpFile.content[i].upstream # httpFile.content[j].upstream

(***************************************************************************)
(* C25 as stated: the upstream name of a hostname is the prefix http_      *)
(* followed by the hostname with every character that is not a letter or   *)
(* a digit replaced by an underscore and the result lower-cased, so apart  *)
(* from the prefix it has only lower-case letters, digits and underscores. *)
(***************************************************************************)
Sanitized(h) == [i \in DOMAIN h |-> IF IsLetterOrDigit(h[i]) THEN ToLower(h[i]) ELSE "_"]

C25_EveryOtherCharacterReplaced ==
    Rendered =>
        \A i \in HTTPLines("server") :
            /\ httpFile.content[i].upstream = UpstreamPrefix \o Sanitized(httpFile.content[i].host)
            /\ \A k \in (Len(UpstreamPrefix) + 1)..Len(httpFile.content[i].upstream) :
                  httpFile.content[i].upstream[k] \in IdentifierChars

(***************************************************************************)
(* C25 as amended: the upstream name of a hostname is the prefix http_     *)
(* followed by the hostname with every dot and every hyphen replaced by an *)
(* underscore and the result lower-cased; for a hostname of letters,       *)
(* digits, dots and hyphens it has, apart from the prefix, only lower-case *)
(* letters, digits and underscores.                                        *)
(***************************************************************************)
DotsAndHyphensReplaced(h) ==
    [i \in DOMAIN h |-> IF h[i] \in {".", "-"} THEN "_"
                        ELSE IF h[i] \in UpperLetters THEN ToLower(h[i]) ELSE h[i]]

C25_DotsAndHyphensReplaced ==
    Rendered =>
        \A i \in HTTPLines("server") :
            /\ httpFile.content[i].upstream =
                  UpstreamPrefix \o DotsAndHyphensReplaced(httpFile.content[i].host)
            /\ IsPlainHostname(httpFile.content[i].host) =>
                  \A k \in (Len(UpstreamPrefix) + 1)..Len(httpFile.content[i].upstream) :
                      httpFile.content[i].upstream[k] \in IdentifierChars

\* the hostnames A.x and b-x were rendered as http_a_x and http_b_x
C25_Witness ==
    /\ Rendered
    /\ \E i, j \in HTTPLines("server") :
          /\ httpFile.content[i].host = <<"A", ".", "x">>
          /\ httpFile.content[i].upstream = <<"h", "t", "t", "p", "_", "a", "_", "x">>
          /\ httpFile.content[j].host = <<"b", "-", "x">>
          /\ httpFile.content[j].upstream = <<"h", "t", "t", "p", "_", "b", "_", "x">>

(***************************************************************************)
(* C26 as stated: a container with several hostnames renders exactly one   *)
(* upstream, shared by all of its hostnames, and one server block per      *)
(* hostname, each referencing that upstream and listening on 80, or on 443 *)
(* when the https flag is set.                                             *)
(***************************************************************************)
UpstreamsTo(c) ==
    {i \in HTTPLines("upstream") : /\ httpFile.content[i].addr = c.IP
                                   /\ httpFile.content[i].port = c.HTTPMapping.ContainerPort}

ListenOf(c) == IF c.HTTPMapping.HTTPS THEN 443 ELSE 80

C26_OneSharedUpstreamPerContainer ==
    Rendered =>
        \A c \in WithHTTP(verdict.containers) :
            /\ Cardinality(UpstreamsTo(c)) = 1
            /\ \A k \in DOMAIN c.HTTPMapping.Hostnames :
                  \E i \in HTTPLines("server") :
                      /\ httpFile.content[i].host = c.HTTPMapping.Hostnames[k]
                      /\ httpFile.content[i].listen = ListenOf(c)
                      /\ \A j \in UpstreamsTo(c) :
                            httpFile.content[j].upstream = httpFile.content[i].upstream

(***************************************************************************)
(* C26 as amended: a container with several hostnames renders one upstream *)
(* per hostname, named after that hostname and routing to the container's  *)
(* address and HTTP port, and one server block per hostname, each          *)
(* referencing the upstream of its own hostname and listening on 80, or on *)
(* 443 when the https flag is set.                                         *)
(***************************************************************************)
C26_OneUpstreamPerHostname ==
    Rendered =>
        /\ \A c \in WithHTTP(verdict.containers) :
            /\ Cardinality(UpstreamsTo(c)) = Len(c.HTTPMapping.Hostnames)
            /\ \A k \in DOMAIN c.HTTPMapping.Hostnames :
                  \E i \in UpstreamsTo(c) :
                      /\ httpFile.content[i].upstream =
                            hostnameToUpstream(c.HTTPMapping.Hostnames[k])
                      /\ i + 1 \in HTTPLines("server")
                      /\ httpFile.content[i + 1].host = c.HTTPMapping.Hostnames[k]
                      /\ httpFile.content[i + 1].upstream = httpFile.content[i].upstream
                      /\ httpFile.content[i + 1].listen = ListenOf(c)
        /\ Cardinality(HTTPLines("server")) = Cardinality(HTTPLines("upstream"))

\* a container with the hostnames a.x and b.x next to one with the https flag
C26_Witness ==
    /\ Rendered
    /\ \E c, d \in WithHTTP(verdict.containers) :
          /\ c.HTTPMapping.Hostnames = <<<<"a", ".", "x">>, <<"b", ".", "x">>>>
          /\ Cardinality(UpstreamsTo(c)) = 2
          /\ d.HTTPMapping.HTTPS
          /\ \E i \in HTTPLines("server") :
                /\ httpFile.content[i].host = d.HTTPMapping.Hostnames[1]
                /\ httpFile.content[i].listen = 443

(***************************************************************************)
(* C27: every stream port claim of every container renders exactly one     *)
(* upstream (routing to the container's address and the claim's container  *)
(* port) and exactly one server block listening on the claim's proxy port  *)
(* with the claim's protocol; the stream document has as many upstreams    *)
(* and as many server blocks as there are claims.                          *)
(***************************************************************************)
StreamClaims(containers) == Flatten([i \in DOMAIN containers |-> containers[i].Mappings])

C27_OneUpstreamAndListenerPerClaim ==
    Rendered =>
        /\ \A c \in Range(verdict.containers) :
              \A k \in DOMAIN c.Mappings :
                  /\ Cardinality({i \in StreamLines("upstream") :
                        /\ streamFile.content[i].proto = c.Mappings[k].Protocol
                        /\ streamFile.content[i].listen = c.Mappings[k].ProxyPort
                        /\ streamFile.content[i].addr = c.IP
                        /\ streamFile.content[i].port = c.Mappings[k].ContainerPort}) = 1
                  /\ Cardinality({i \in StreamLines("server") :
                        /\ streamFile.content[i].proto = c.Mappings[k].Protocol
                        /\ streamFile.content[i].listen = c.Mappings[k].ProxyPort}) = 1
        /\ Cardinality(StreamLines("upstream")) = Len(StreamClaims(verdict.containers))
        /\ Cardinality(StreamLines("server")) = Len(StreamClaims(verdict.containers))

\* proxy.tcp.ports=80:8080,443:8443 with proxy.udp.ports=53: three upstreams,
\* listeners on 80, 443 and 53
C27_Witness ==
    /\ Rendered
    /\ Len(verdict.containers) = 1
    /\ Cardinality(StreamLines("upstream")) = 3
    /\ {<<streamFile.content[i].proto, streamFile.content[i].listen>> :
            i \in StreamLines("server")} = {<<TCP, 80>>, <<TCP, 443>>, <<UDP, 53>>}
    /\ {<<streamFile.content[i].proto, streamFile.content[i].port>> :
            i \in StreamLines("upstream")} = {<<TCP, 8080>>, <<TCP, 8443>>, <<UDP, 53>>}

(***************************************************************************)
(* C28: Generate on no containers, or on containers without a single       *)
(* claim, succeeds and renders two documents without upstreams and without *)
(* server blocks; when neither document existed before, it returns         *)
(* changed = true and creates both files.                                  *)
(***************************************************************************)
Claimless(containers) ==
    \A c \in Range(containers) : c.Mappings = <<>> /\ ~c.HTTPMapping.HasHTTP

C28_EmptySetRendersEmptyDocuments ==
    (verdict.called /\ Claimless(verdict.containers)) =>
        /\ verdict.err = "none"
        /\ streamFile.exists /\ httpFile.exists
        /\ StreamLines("upstream") \cup StreamLines("server") = {}
        /\ HTTPLines("upstream") \cup HTTPLines("server") = {}
        /\ (~verdict.preStream.exists /\ ~verdict.preHttp.exists) => verdict.changed

\* the first pass finds no container and neither document exists yet
C28_Witness ==
    /\ verdict.called /\ verdict.containers = <<>>
    /\ ~verdict.preStream.exists /\ ~verdict.preHttp.exists
    /\ verdict.changed
    /\ streamFile.exists /\ httpFile.exists

\* the first pass finds a labelled container that claims nothing
C28_ClaimlessContainer ==
    /\ verdict.called /\ verdict.containers # <<>> /\ Claimless(verdict.containers)
    /\ ~verdict.preStream.exists
    /\ verdict.changed /\ streamFile.exists /\ httpFile.exists

(***************************************************************************)
(* LabelSpec: a label value is typed piece by piece, at most MaxPieces     *)
(* pieces; parsePortMappings reads it as a port label, and parseContainer  *)
(* resolves a container that carries it as its proxy.http.host label.      *)
(* input is the sequence of pieces, the label their concatenation.         *)
(***************************************************************************)
LabelPieces ==
    {<<"8", "0">>, <<"6", "5", "5", "3", "5">>, <<"6", "5", "5", "3", "6">>, <<"0">>,
     <<":">>, <<",">>, <<" ">>, <<"x">>, <<"-">>}

LabelInit ==
    /\ WatchInit
    /\ now = 0
    /\ streamFile = Missing
    /\ httpFile = Missing
    /\ nginxLoaded = <<Missing, Missing>>
    /\ input = <<>>
    /\ verdict = NoVerdict

LabelAppend ==
    /\ Len(input) < MaxPieces
    /\ \E piece \in LabelPieces : input' = Append(input, piece)
    /\ verdict' = NoVerdict
    /\ UNCHANGED <<now, streamFile, httpFile>>
    /\ UNCHANGED watchVars

\* parsePortMappings(label)
LabelParsePorts ==
    /\ \E res \in {parsePortMappings(Flatten(input))} :
          verdict' = [called |-> TRUE, kind |-> "ports", label |-> Flatten(input), res |-> res]
    /\ UNCHANGED <<now, streamFile, httpFile, input>>
    /\ UNCHANGED watchVars

\* parseContainer of a running container with proxy.http.host=label
LabelResolveHost ==
    /\ \E res \in {parseContainer(Listed("web1", "web1", TRUE, "172.17.0.2", <<>>,
                                         [NoLabels EXCEPT !.host = Flatten(input)]))} :
          verdict' = [called |-> TRUE, kind |-> "host", label |-> Flatten(input), res |-> res]
    /\ UNCHANGED <<now, streamFile, httpFile, input>>
    /\ UNCHANGED watchVars

LabelNext == LabelAppend \/ LabelParsePorts \/ LabelResolveHost

LabelSpec == LabelInit /\ [][LabelNext]_vars

(***************************************************************************)
(* C29: parsePortMappings.  Each token a yields {proxyPort a,              *)
(* containerPort a} and each token a:b yields {proxyPort a, containerPort  *)
(* b}, in input order, whitespace around the tokens and around the colon   *)
(* ignored, every port within 1..65535; a token with more than one colon,  *)
(* a port that is no integer or a port outside 1..65535 makes the call     *)
(* return an error and no mappings at all.  (Blank tokens are no tokens.)  *)
(***************************************************************************)
TokensOf(label) ==
    SelectSeq([i \in DOMAIN Split(label, ",") |-> TrimSpace(Split(label, ",")[i])],
              LAMBDA tok : tok # <<>>)

Colons(tok) == Cardinality({i \in DOMAIN tok : tok[i] = ":"})

ColonAt(tok) == CHOOSE i \in DOMAIN tok : tok[i] = ":"

ProxyField(tok) ==
    IF Colons(tok) = 0 THEN tok ELSE TrimSpace(SubSeq(tok, 1, ColonAt(tok) - 1))

ContainerField(tok) ==
    IF Colons(tok) = 0 THEN tok ELSE TrimSpace(SubSeq(tok, ColonAt(tok) + 1, Len(tok)))

\* decimal digits with an optional sign
IsInteger(str) ==
    LET ds == IF str # <<>> /\ str[1] \in {"+", "-"} THEN Tail(str) ELSE str
    IN  ds # <<>> /\ \A i \in DOMAIN ds : IsDigit(ds[i])

IntegerOf(str) ==
    IF str[1] = "-" THEN 0 - DecVal(Tail(str))
    ELSE IF str[1] = "+" THEN DecVal(Tail(str)) ELSE DecVal(str)

IsPort(str) == IsInteger(str) /\ IntegerOf(str) \in 1..65535

GoodToken(tok) ==
    Colons(tok) <= 1 /\ IsPort(ProxyField(tok)) /\ IsPort(ContainerField(tok))

C29_PortLabelParsedOrRejected ==
    (verdict.called /\ verdict.kind = "ports") =>
        LET toks == TokensOf(verdict.label)
            maps == verdict.res.mappings
        IN  IF \A k \in DOMAIN toks : GoodToken(toks[k])
            THEN /\ ~verdict.res.err
                 /\ Len(maps) = Len(toks)
                 /\ \A k \in DOMAIN toks :
                       /\ maps[k].ProxyPort = IntegerOf(ProxyField(toks[k]))
                       /\ maps[k].ContainerPort = IntegerOf(ContainerField(toks[k]))
                       /\ maps[k].ProxyPort \in 1..65535
                       /\ maps[k].ContainerPort \in 1..65535
            ELSE verdict.res.err /\ maps = <<>>

\* "80, 65535": two mappings in input order, the blank before the second dropped
C29_Witness ==
    /\ verdict.called /\ verdict.kind = "ports"
    /\ verdict.label = <<"8", "0", ",", " ", "6", "5", "5", "3", "5">>
    /\ ~verdict.res.err
    /\ Len(verdict.res.mappings) = 2
    /\ verdict.res.mappings[1].ProxyPort = 80 /\ verdict.res.mappings[1].ContainerPort = 80
    /\ verdict.res.mappings[2].ProxyPort = 65535

\* "80 : 65535": one mapping, the blanks around the colon dropped
C29_AroundColon ==
    /\ verdict.called /\ verdict.kind = "ports"
    /\ verdict.label = <<"8", "0", " ", ":", "6", "5", "5", "3", "5">>
    /\ ~verdict.res.err
    /\ Len(verdict.res.mappings) = 1
    /\ verdict.res.mappings[1].ProxyPort = 80 /\ verdict.res.mappings[1].ContainerPort = 65535

\* "80,65536": the first token is fine, the second out of range; nothing is returned
C29_RejectedWhole ==
    /\ verdict.called /\ verdict.kind = "ports"
    /\ verdict.label = <<"8", "0", ",", "6", "5", "5", "3", "6">>
    /\ verdict.res.err /\ verdict.res.mappings = <<>>

(***************************************************************************)
(* C30: every HTTP mapping that parseContainer returns has a non-empty     *)
(* list of distinct hostnames, each trimmed and non-empty; empty tokens of *)
(* the label are dropped, and a label without any hostname fails the       *)
(* container.                                                              *)
(***************************************************************************)
C30_HostnamesDistinctAndNonEmpty ==
    (verdict.called /\ verdict.kind = "host" /\ verdict.label # <<>>) =>
        IF TokensOf(verdict.label) = <<>>
        THEN verdict.res.kind = "error"
        ELSE /\ verdict.res.kind = "ok"
             /\ verdict.res.info.HTTPMapping.HasHTTP
             /\ verdict.res.info.HTTPMapping.Hostnames = TokensOf(verdict.label)
             /\ \A i, j \in DOMAIN verdict.res.info.HTTPMapping.Hostnames :
                   i # j => verdict.res.info.HTTPMapping.Hostnames[i] #
                            verdict.res.info.HTTPMapping.Hostnames[j]

(***************************************************************************)
(* HTTPLabelSpec: parseContainer applied to a running container with       *)
(* proxy.http.host=a.x and every pair of a proxy.http.port and a           *)
(* proxy.http.https value below (<<>> is the absent label).                *)
(***************************************************************************)
\* absent, 80, 8080, " 8443 ", 1, 65535, 65536, 0, x, -1, +5, " ", 80:80, "8 0"
PortLabels ==
    {<<>>, <<"8", "0">>, <<"8", "0", "8", "0">>, <<" ", "8", "4", "4", "3", " ">>, <<"1">>,
     <<"6", "5", "5", "3", "5">>, <<"6", "5", "5", "3", "6">>, <<"0">>, <<"x">>,
     <<"-", "1">>, <<"+", "5">>, <<" ">>, <<"8", "0", ":", "8", "0">>, <<"8", " ", "0">>}

\* absent, true, TRUE, True, " true ", false, yes, "" after trimming
FlagLabels ==
    {<<>>, <<"t", "r", "u", "e">>, <<"T", "R", "U", "E">>, <<"T", "r", "u", "e">>,
     <<" ", "t", "r", "u", "e", " ">>, <<"f", "a", "l", "s", "e">>, <<"y", "e", "s">>,
     <<" ">>}

HTTPLabelInit ==
    /\ WatchInit
    /\ now = 0
    /\ streamFile = Missing
    /\ httpFile = Missing
    /\ nginxLoaded = <<Missing, Missing>>
    /\ input = <<>>
    /\ verdict = NoVerdict

\* a container is started with its labels
HTTPLabelStart ==
    /\ input = <<>>
    /\ \E port \in PortLabels, flag \in FlagLabels :
          input' = <<Listed("web1", "web1", TRUE, "172.17.0.2", <<>>,
                            [NoLabels EXCEPT !.host = <<"a", ".", "x">>,
                                             !.port = port, !.https = flag])>>
    /\ UNCHANGED <<now, streamFile, httpFile, verdict>>
    /\ UNCHANGED watchVars

HTTPLabelResolve ==
    /\ input # <<>>
    /\ ~verdict.called
    /\ \E res \in {parseContainer(input[1])} :
          verdict' = [called |-> TRUE, kind |-> "http", label |-> input[1].Labels.port,
                      flag |-> input[1].Labels.https, res |-> res]
    /\ UNCHANGED <<now, streamFile, httpFile, input>>
    /\ UNCHANGED watchVars

HTTPLabelNext == HTTPLabelStart \/ HTTPLabelResolve

HTTPLabelSpec == HTTPLabelInit /\ [][HTTPLabelNext]_vars

(***************************************************************************)
(* C31 as stated: for a container with a hostname label, the backend port  *)
(* is 80 when the port label is absent and the label's integer value when  *)
(* that lies in 1..65535; a port label that is present but no integer or   *)
(* out of range fails the container; the https flag is true exactly when   *)
(* the flag label equals "true" case-insensitively, false otherwise.       *)
(***************************************************************************)
LowerCased(str) == [i \in DOMAIN str |-> IF str[i] \in UpperLetters THEN ToLower(str[i]) ELSE str[i]]

PortLabelRule ==
    IF verdict.label = <<>>
    THEN verdict.res.kind = "ok" /\ verdict.res.info.HTTPMapping.ContainerPort = 80
    ELSE IF IsPort(TrimSpace(verdict.label))
    THEN /\ verdict.res.kind = "ok"
         /\ verdict.res.info.HTTPMapping.ContainerPort = IntegerOf(TrimSpace(verdict.label))
    ELSE verdict.res.kind = "error"

C31_FlagEqualsTrue ==
    (verdict.called /\ verdict.kind = "http") =>
        /\ PortLabelRule
        /\ verdict.res.kind = "ok" =>
              (verdict.res.info.HTTPMapping.HTTPS <=>
                  LowerCased(verdict.flag) = <<"t", "r", "u", "e">>)

(***************************************************************************)
(* C31 as amended: the same, with the https flag true exactly when the     *)
(* flag label, trimmed of surrounding whitespace, equals "true"            *)
(* case-insensitively, and false otherwise, also when it is absent.        *)
(***************************************************************************)
C31_TrimmedFlagEqualsTrue ==
    (verdict.called /\ verdict.kind = "http") =>
        /\ PortLabelRule
        /\ verdict.res.kind = "ok" =>
              (verdict.res.info.HTTPMapping.HTTPS <=>
                  LowerCased(TrimSpace(verdict.flag)) = <<"t", "r", "u", "e">>)

\* proxy.http.port=" 8443 " with proxy.http.https=True
C31_Witness ==
    /\ verdict.called /\ verdict.kind = "http"
    /\ verdict.label = <<" ", "8", "4", "4", "3", " ">>
    /\ verdict.flag = <<"T", "r", "u", "e">>
    /\ verdict.res.kind = "ok"
    /\ verdict.res.info.HTTPMapping.ContainerPort = 8443
    /\ verdict.res.info.HTTPMapping.HTTPS

\* no port label, no flag label: port 80, insecure listener
C31_Defaults ==
    /\ verdict.called /\ verdict.kind = "http"
    /\ verdict.label = <<>> /\ verdict.flag = <<>>
    /\ verdict.res.kind = "ok"
    /\ verdict.res.info.HTTPMapping.ContainerPort = 80
    /\ ~verdict.res.info.HTTPMapping.HTTPS

\* proxy.http.port=65536 fails the container
C31_OutOfRange ==
    /\ verdict.called /\ verdict.kind = "http"
    /\ verdict.label = <<"6", "5", "5", "3", "6">>
    /\ verdict.res.kind = "error"

(***************************************************************************)
(* ReloadSpec: Reloader.Reload called again and again, at any time and     *)
(* with either outcome of the reload command.  A throttled call sleeps     *)
(* ReloadMinInterval before it runs the command, so the clock advances     *)
(* inside the call; lastReload is set only when the command succeeded.     *)
(***************************************************************************)
\* when the command runs, and lastReload afterwards
Reload(last, t, ok) ==
    LET throttled == last # NeverReloaded /\ t - last < ReloadMinInterval
        ranAt     == IF throttled THEN t + ReloadMinInterval ELSE t
    IN  [throttled |-> throttled, ranAt |-> ranAt, err |-> ~ok,
         lastReload |-> IF ok THEN ranAt ELSE last]

ReloadInit ==
    /\ WatchInit
    /\ now = 0
    /\ streamFile = Missing
    /\ httpFile = Missing
    /\ nginxLoaded = <<Missing, Missing>>
    /\ input = <<>>
    /\ verdict = NoVerdict

ReloadTick ==
    /\ now < MaxTime
    /\ now' = now + 1
    /\ UNCHANGED <<streamFile, httpFile, input, verdict>>
    /\ UNCHANGED watchVars

ReloadCall ==
    /\ \E ok \in BOOLEAN :
        \E res \in {Reload(lastReload, now, ok)} :
          /\ res.ranAt <= MaxTime
          /\ now' = res.ranAt
          /\ lastReload' = res.lastReload
          /\ verdict' = [called    |-> TRUE,
                         calledAt  |-> now,
                         throttled |-> res.throttled,
                         ranAt     |-> res.ranAt,
                         err       |-> res.err,
                         second    |-> verdict.called,
                         prevAt    |-> IF verdict.called THEN verdict.ranAt ELSE 0,
                         prevErr   |-> IF verdict.called THEN verdict.err ELSE FALSE]
    /\ UNCHANGED <<streamFile, httpFile, input>>
    /\ UNCHANGED <<live, dockerStream, dockerErr, src, held, eventCh, errCh, chClosed, sigCh,
                   ctxDone, pc, initial, exitErr, pendingReload, timerArmed, timerDeadline,
                   scanned, nginxLoaded, pass, emitted, burst, activePasses>>

ReloadNext == ReloadTick \/ ReloadCall

ReloadSpec == ReloadInit /\ [][ReloadNext]_vars

(***************************************************************************)
(* C32: the reload command never runs sooner than ReloadMinInterval after  *)
(* the previous run of the command completed, whatever its outcome; a call *)
(* made too early blocks until the interval has elapsed.                   *)
(***************************************************************************)
C32_ReloadsSpaced ==
    (verdict.called /\ verdict.second) =>
        /\ verdict.ranAt - verdict.prevAt >= ReloadMinInterval
        /\ (verdict.calledAt - verdict.prevAt < ReloadMinInterval) => verdict.throttled

\* what does hold: the spacing after a run of the command that succeeded
C32_SpacedAfterSuccess ==
    (verdict.called /\ verdict.second /\ ~verdict.prevErr) =>
        /\ verdict.ranAt - verdict.prevAt >= ReloadMinInterval
        /\ (verdict.calledAt - verdict.prevAt < ReloadMinInterval) => verdict.throttled

\* a call right after a successful reload slept before it ran the command
C32_Throttled ==
    /\ verdict.called /\ verdict.second /\ ~verdict.prevErr
    /\ verdict.calledAt = verdict.prevAt
    /\ verdict.throttled
    /\ verdict.ranAt = verdict.prevAt + ReloadMinInterval

(***************************************************************************)
(* CmdSpec: the generate command, run by the operator once and again while *)
(* the fixture containers start and stop.  One run is ScanContainers, then *)
(* Generate, then the return from RunE.                                    *)
(***************************************************************************)
\* variant: after a change the command goes on to validate, as a watch pass does
ContinueToValidate(changed) == IF changed THEN "validate" ELSE "exited"

\* generateCmd returns nil after Generate, changed or not
AfterGenerateCmd(changed) == "exited"

CmdInit ==
    /\ WatchInit
    /\ now = 0
    /\ streamFile = Missing
    /\ httpFile = Missing
    /\ nginxLoaded = <<Missing, Missing>>
    /\ input = <<>>
    /\ verdict = NoVerdict

CmdUnchanged ==
    UNCHANGED <<dockerStream, dockerErr, src, held, eventCh, errCh, chClosed, sigCh, ctxDone,
                initial, pendingReload, timerArmed, timerDeadline, nginxLoaded, lastReload,
                emitted, burst, input, verdict>>

\* a fixture container starts or stops
CmdRuntimeChange ==
    /\ \E name \in WatchFixtures :
          live' = IF name \in live THEN live \ {name} ELSE live \cup {name}
    /\ UNCHANGED <<now, pc, exitErr, scanned, streamFile, httpFile, pass, activePasses>>
    /\ CmdUnchanged

CmdTick ==
    /\ now < MaxTicks
    /\ now' = now + 1
    /\ UNCHANGED <<live, pc, exitErr, scanned, streamFile, httpFile, pass, activePasses>>
    /\ CmdUnchanged

\* the operator runs the command again
CmdRunAgain ==
    /\ pc = "exited"
    /\ pc' = "scan"
    /\ exitErr' = "running"
    /\ pass' = NewPass(now)
    /\ activePasses' = 1
    /\ scanned' = <<>>
    /\ UNCHANGED <<now, live, streamFile, httpFile>>
    /\ CmdUnchanged

\* containers, err := dockerClient.ScanContainers(ctx)
CmdScan ==
    /\ pc = "scan"
    /\ \/ /\ pass' = [pass EXCEPT !.trace = Append(@, "enumerate"), !.err = "scan",
                                  !.done = TRUE]
          /\ pc' = "exited"
          /\ exitErr' = "container scan failed"
          /\ activePasses' = activePasses - 1
          /\ UNCHANGED scanned
       \/ /\ \E list \in ScanOrders(live) : scanned' = list
          /\ pass' = [pass EXCEPT !.trace = Append(@, "enumerate")]
          /\ pc' = "generate"
          /\ UNCHANGED <<exitErr, activePasses>>
    /\ UNCHANGED <<now, live, streamFile, httpFile>>
    /\ CmdUnchanged

\* changed, err := generator.Generate(containers), then return
CmdGenerate ==
    /\ pc = "generate"
    /\ \E ioS, ioH \in IOOutcomes :
        \E res \in {Generate(scanned, now, streamFile, httpFile, ioS, ioH)} :
          /\ streamFile' = res.streamFile
          /\ httpFile' = res.httpFile
          /\ pass' = [pass EXCEPT
                        !.trace = @ \o (IF res.err = "conflict" THEN <<"conflict">>
                                                                ELSE <<"conflict", "commit">>),
                        !.changed = res.changed,
                        !.err = res.err,
                        !.wrote = (res.streamFile # streamFile \/ res.httpFile # httpFile),
                        !.done = (res.err # "none" \/ AfterGenerateCmd(res.changed) = "exited")]
          /\ pc' = IF res.err # "none" THEN "exited" ELSE AfterGenerateCmd(res.changed)
          /\ exitErr' = IF res.err # "none" THEN "config generation failed" ELSE "nil"
          /\ activePasses' = IF pc' = "exited" THEN activePasses - 1 ELSE activePasses
    /\ UNCHANGED <<now, live, scanned>>
    /\ CmdUnchanged

CmdNext == CmdRuntimeChange \/ CmdTick \/ CmdRunAgain \/ CmdScan \/ CmdGenerate

CmdSpec == CmdInit /\ [][CmdNext]_vars

(***************************************************************************)
(* C33 as stated: the generate command runs exactly one pass, the same     *)
(* enumerate, conflict validation, commit, validate, reload sequence a     *)
(* watch pass runs, and then exits without entering an event loop.         *)
(***************************************************************************)
C33_GenerateRunsWholePass ==
    /\ pc # "select"
    /\ activePasses <= 1
    /\ (pc = "exited" /\ pass.err = "none" /\ pass.changed) => pass.trace = FullOrder

(***************************************************************************)
(* C33 as amended: the generate command runs exactly one enumerate,        *)
(* conflict validation, commit sequence, the first part of a watch pass;   *)
(* it neither validates the configuration nor reloads the proxy, and then  *)
(* exits without entering an event loop.                                   *)
(***************************************************************************)
C33_GenerateStopsAfterCommit ==
    /\ pc \in {"scan", "generate", "exited"}
    /\ activePasses <= 1
    /\ (pc = "exited") <=> pass.done
    /\ IsPrefixOf(pass.trace, <<"enumerate", "conflict", "commit">>)
    /\ (pc = "exited" /\ pass.err = "none") => pass.trace = <<"enumerate", "conflict", "commit">>
    /\ nginxLoaded = <<Missing, Missing>>
    /\ lastReload = NeverReloaded
    /\ src = "notStarted"

\* a run wrote new documents and returned nil; the proxy has loaded nothing
C33_Witness ==
    /\ pc = "exited" /\ exitErr = "nil"
    /\ pass.done /\ pass.changed /\ pass.wrote
    /\ pass.trace = <<"enumerate", "conflict", "commit">>
    /\ streamFile.exists /\ httpFile.exists
    /\ nginxLoaded = <<Missing, Missing>>

(***************************************************************************)
(* RetrySpec: the watch command over a horizon long enough for a third     *)
(* pass: the initial generation, a debounced pass that fails, and the      *)
(* debounced pass after it.                                                *)
(***************************************************************************)
RetryTick == ClockAdvance(RetryMaxTime)

RetryRuntimeChange == ContainerChange(RetryMaxEvents, {"web1"})

RetryNext ==
    \/ RetryTick
    \/ RetryRuntimeChange
    \/ RuntimeStreamError
    \/ Signal
    \/ SrcRecvEvent
    \/ SrcSend
    \/ SrcRecvErr
    \/ SrcCtxDone
    \/ PassScan
    \/ PassGenerate
    \/ PassValidate
    \/ PassReload
    \/ RecvEvent
    \/ TimerFire
    \/ RecvErr
    \/ RecvSignal

RetrySpec == Init /\ [][RetryNext]_vars

(***************************************************************************)
(* C34: the proxy had loaded the documents on disk when watchCmd started.  *)
(* Whenever a pass completes without error, the configuration the proxy    *)
(* loaded last equals the documents on disk; a pass that finds documents   *)
(* on disk the proxy has not loaded (left by a pass that failed at         *)
(* validation or reload) does not end without error before it has          *)
(* validated and reloaded.                                                 *)
(***************************************************************************)
Loaded == nginxLoaded = <<streamFile, httpFile>>

InitialEnumerationDone == ~initial \/ pc \in {"generate", "validate", "reload"}

C35_NoChangeMissedAtStartup ==
    [][(live' # live /\ InitialEnumerationDone /\ ~dockerErr) =>
          Len(dockerStream') = Len(dockerStream) + 1]_vars

\* the initial pass has enumerated the containers and the subscription has
\* not been made: a change now reaches no event stream
C35_StartupWindow ==
    /\ initial /\ pc \in {"generate", "validate", "reload"}
    /\ ~Subscribed
    /\ emitted < MaxEvents

\* once WatchEvents has subscribed, every change is reported
C35_ReportedOnceSubscribed ==
    [][(live' # live /\ Subscribed /\ ~dockerErr) =>
          Len(dockerStream') = Len(dockerStream) + 1]_vars

(***************************************************************************)
(* StormSpec: the watch command with one container that starts and dies    *)
(* without end, while no shutdown signal arrives and the runtime's event   *)
(* stream stays intact.  For the state space to stay finite while time goes on     *)
(* for ever, the clock is read relative to the present: now keeps the      *)
(* value DebounceDelay and a second passing makes every recorded instant   *)
(* (the timer's deadline, lastReload, the generation time in the           *)
(* documents) one second older.  Instants older than the present by        *)
(* DebounceDelay or more are not told apart; the code compares instants    *)
(* only in time.Since(lastReload) < 1s, in the expiry of the 2 s timer and *)
(* in the equality of the rendered bytes with the bytes on disk.           *)
(***************************************************************************)
Older(t) == IF t > 0 THEN t - 1 ELSE 0

OlderFile(file) ==
    [file EXCEPT !.content = [i \in DOMAIN @ |-> [@[i] EXCEPT !.ts = Older(@)]]]

StormInit ==
    /\ WatchInit
    /\ now = DebounceDelay
    /\ input = <<>>
    /\ verdict = NoVerdict
    /\ \E left \in BOOLEAN :
          /\ streamFile = IF left THEN FileWith(RenderStream(buildTemplateData(<<>>, now).stream))
                                  ELSE Missing
          /\ httpFile = IF left THEN FileWith(RenderHTTP(buildTemplateData(<<>>, now).http))
                                ELSE Missing
    /\ nginxLoaded = <<streamFile, httpFile>>

\* a second passes
StormTick ==
    /\ Running
    /\ timerDeadline' = Older(timerDeadline)
    /\ lastReload' = IF lastReload = NeverReloaded THEN NeverReloaded ELSE Older(lastReload)
    /\ streamFile' = OlderFile(streamFile)
    /\ httpFile' = OlderFile(httpFile)
    /\ nginxLoaded' = <<OlderFile(nginxLoaded[1]), OlderFile(nginxLoaded[2])>>
    /\ pass' = [pass EXCEPT !.startedAt = Older(@)]
    /\ burst' = [burst EXCEPT !.lastRecv = Older(@)]
    /\ UNCHANGED <<now, live, dockerStream, dockerErr, src, held, eventCh, errCh, chClosed,
                   sigCh, ctxDone, pc, initial, exitErr, pendingReload, timerArmed, scanned,
                   emitted, activePasses, input, verdict>>

\* events reported by the runtime that the loop has not received yet
InFlight == Len(dockerStream) + Len(eventCh) + (IF src = "send" THEN 1 ELSE 0)

\* the container starts or dies, any number of times; the runtime reports
\* it to an active subscription.  At most StormBacklog events are in flight.
StormChange ==
    /\ Running
    /\ InFlight < StormBacklog
    /\ \E name \in {"web1"} :
          /\ live' = IF name \in live THEN live \ {name} ELSE live \cup {name}
          /\ dockerStream' =
                IF Subscribed /\ ~dockerErr
                THEN Append(dockerStream,
                            [Type |-> IF name \in live THEN "die" ELSE "start", Name |-> name])
                ELSE dockerStream
    /\ UNCHANGED <<now, dockerErr, src, held, eventCh, errCh, chClosed, sigCh, ctxDone, pc,
                   initial, exitErr, pendingReload, timerArmed, timerDeadline, scanned,
                   streamFile, httpFile, nginxLoaded, lastReload, pass, emitted, burst,
                   activePasses, input, verdict>>

StormNext ==
    \/ StormTick
    \/ StormChange
    \/ SrcRecvEvent
    \/ SrcSend
    \/ PassScan
    \/ PassGenerate
    \/ PassValidate
    \/ PassReload
    \/ RecvEvent
    \/ TimerFire

\* time goes on, and the select statement, which picks among its ready
\* cases at random, does not pass over the expired timer for ever
StormFairness ==
    /\ WF_vars(StormTick)
    /\ SF_vars(TimerFire)

StormSpec == StormInit /\ [][StormNext]_vars /\ StormFairness

(***************************************************************************)
(* C36 (as stated): every event received by the loop is eventually         *)
(* followed by the start of a pass, whatever events arrive later, unless   *)
(* a shutdown signal or a stream error occurs.                             *)
(***************************************************************************)
EventAwaitsPass == pendingReload /\ pc = "select"

PassStartedOrStopped == pc = "scan" \/ sigCh \/ dockerErr \/ pc = "exited"

C36_EventLeadsToPass == EventAwaitsPass ~> PassStartedOrStopped

\* an event is received while the timer armed by an earlier one is still running
Postponed == RecvEvent /\ timerArmed /\ now < timerDeadline

(***************************************************************************)
(* C36 (amended): every event received by the loop is eventually followed  *)
(* by the start of a pass, unless a shutdown signal or a stream error      *)
(* occurs or events keep arriving for ever, each received before the       *)
(* debounce delay after the one before it has expired.                     *)
(***************************************************************************)
C36_EventLeadsToPassOncePaused ==
    ([]<><<Postponed>>_vars) \/ (EventAwaitsPass ~> PassStartedOrStopped)

\* a pass starts after a burst of events that postponed it
C36_Witness ==
    /\ pc = "scan" /\ ~initial
    /\ burst.len >= 2
    /\ pendingReload
    /\ ~sigCh /\ ~dockerErr

(***************************************************************************)
(* C37: once a shutdown signal is in sigCh while watchCmd is not inside a  *)
(* pass, no pass starts any more: the next step of the loop is the signal  *)
(* case, which cancels the context and returns.                            *)
(***************************************************************************)
\* the signal is in sigCh, the loop is at its select statement and the
\* event stream is intact
SignalDelivered == sigCh /\ pc = "select" /\ ~dockerErr

\* a step of the event loop: a case of the select statement is taken
LoopStep ==
    \/ pc' # pc
    \/ timerArmed' # timerArmed
    \/ timerDeadline' # timerDeadline
    \/ Len(eventCh') < Len(eventCh)
    \/ Len(errCh') < Len(errCh)

C37_NoPassAfterSignal == [][SignalDelivered => pc' # "scan"]_vars

\* the second half of the claim: the case taken next is the signal case
C37_NextStepIsExit ==
    [][(SignalDelivered /\ LoopStep) => (pc' = "exited" /\ ctxDone' /\ exitErr' = "nil")]_vars

\* the signal is in sigCh and the expired timer of a pending reload is
\* ready as well: the select statement may take either case
C37_SignalAndTimerReady ==
    /\ SignalDelivered
    /\ timerArmed /\ now >= timerDeadline /\ pendingReload

\* a pass is running although the signal has been in sigCh since before it started
C37_PassAfterSignal ==
    /\ sigCh /\ pc = "scan" /\ ~initial
    /\ ~dockerErr /\ ~chClosed

\* the signal case, once taken, cancels the context and ends watchCmd with nil
C37_SignalCaseExits ==
    [][(SignalDelivered /\ ~sigCh') => (pc' = "exited" /\ ctxDone' /\ exitErr' = "nil")]_vars

(***************************************************************************)
(* C38: Generate treats the two documents as one unit.  When it returns    *)
(* an error neither document on disk was modified by the call, and when    *)
(* the call modified a document it returns changed = true.                 *)
(***************************************************************************)
ModifiedByCall == streamFile # verdict.preStream \/ httpFile # verdict.preHttp

C38_DocumentsAreOneUnit ==
    verdict.called =>
        /\ verdict.err # "none" => ~ModifiedByCall
        /\ ModifiedByCall => verdict.changed

\* Generate replaced the stream document and then failed on the hostname
\* document: it returned an error and changed = false
C38_StreamReplacedThenError ==
    /\ verdict.called
    /\ verdict.err = "http"
    /\ ~verdict.changed
    /\ streamFile # verdict.preStream
    /\ httpFile = verdict.preHttp

\* what holds: a conflict or a failure on the stream document, which is
\* written first, leaves both documents as they were; a call without error
\* reports changed exactly when it modified a document
C38_FirstFailureLeavesBoth ==
    verdict.called =>
        /\ verdict.err \in {"conflict", "stream"} => ~ModifiedByCall
        /\ verdict.err = "none" => (verdict.changed <=> ModifiedByCall)

(***************************************************************************)
(* C39: pendingReload and the debounce timer agree in every reachable      *)
(* state.  The timer runs only while pendingReload is true; pendingReload  *)
(* is true exactly when an event has been received since the last pass     *)
(* completed (a burst is open, or the pass it triggered is still           *)
(* running); and when the timer fires, pendingReload is true and a pass    *)
(* starts.                                                                 *)
(***************************************************************************)
ReceivedSinceLastPass == burst.open \/ (pc \in PassSteps /\ ~initial)

TimerFires == timerArmed /\ ~timerArmed'

C39_PendingAgreesWithTimer ==
    /\ [](timerArmed => pendingReload)
    /\ [](pendingReload <=> ReceivedSinceLastPass)
    /\ [][TimerFires => (pendingReload /\ now >= timerDeadline /\ pc' = "scan")]_vars

\* the timer armed by a burst of events has fired and started a pass; the
\* reload stays pending until the pass returns
C39_Witness ==
    /\ pc = "scan" /\ ~initial
    /\ pendingReload /\ ~timerArmed
    /\ ~burst.open /\ burst.len >= 1 /\ burst.passes = 1

====
